---- MODULE Spec2Model ----
(***************************************************************************)
(* Bus trip tracking backend (rafenri22/trackkbkc).                        *)
(*                                                                         *)
(* The current server is src/unnamed/part_000 (stop dwell support); the    *)
(* file src/index.js holds the earlier server revision (lines 1-475) and   *)
(* the routing library lib/routing (lines 476-829).                        *)
(*                                                                         *)
(* Every async handler is cut at its awaits: an action is one awaited      *)
(* store operation taking effect together with the synchronous code that   *)
(* runs when the handler resumes from it, up to the next await.            *)
(*                                                                         *)
(* Abstractions:                                                           *)
(*  - a coordinate path is its length N, a coordinate is its path index;   *)
(*  - the completion fraction f (0..100) is the integer f * PUnits / 100;  *)
(*    the inputs are chosen so that every per-tick increment is a whole    *)
(*    number of units (floating-point rounding is not modelled);           *)
(*  - Date.now() is the variable now, in seconds; a timer created in one   *)
(*    period first fires in the next and then once per period;             *)
(*  - Math.random() is a drawn numerator r of r / RandDen;                 *)
(*  - a store operation succeeds, except those of a tick in SpecFail; a    *)
(*    tick always has a position to write (currentLat && currentLng);      *)
(*  - the branch of startTripTracking that synthesizes a route from the    *)
(*    segments is taken in SpecSynth only: elsewhere a trip has a          *)
(*    persisted route or no segments;                                      *)
(*  - in the routing library a location is a point of a line, distances   *)
(*    are in metres, durations in milliseconds, and a path is its number  *)
(*    of coordinates.                                                      *)
(*                                                                         *)
(* Specifications:                                                         *)
(*  - Spec: every handler interleaved at its awaits;                       *)
(*  - SpecSerial: the same, no two startTripTracking calls overlapping;    *)
(*  - SpecDwell: one session with stops, ticks not overlapping;            *)
(*  - SpecPure: the pure functions applied to enumerated arguments;        *)
(*  - SpecFail: one session whose store operations may fail;               *)
(*  - SpecFleet: two trips, on one vehicle or on two;                      *)
(*  - SpecBoot: initializeTracking on a store of two trips;                *)
(*  - SpecFeed: trips created, started and cancelled by other clients;     *)
(*  - SpecStop: Spec with the SIGINT handler;                              *)
(*  - SpecRoute: calculateRouteFromSegments on enumerated segment lists,   *)
(*    getRouteFromOSRM on enumerated points and request outcomes;          *)
(*  - SpecSynth: one session of a trip with or without a persisted route;  *)
(*  - SpecLive: sessions without cancellation, every step taken fairly.    *)
(***************************************************************************)
EXTENDS Integers, Sequences, FiniteSets, TLC

\* ------------------------------------------------------------------ bounds
\* Math.random() takes the values 0/RandDen .. (RandDen-1)/RandDen.
RandDen == 64
\* setInterval handles the model hands out.
MaxTimers == 2
\* Tick periods the clock may advance: in the interleaved runs, in the dwell runs.
MaxClock == 2
DwellClock == 100
\* Longest coordinate path currentPosition is applied to.
MaxPath == 5
\* Handler activations (control-surface requests, change-feed deliveries).
MaxRequests == 2
\* Longest segment list calculateRouteFromSegments is applied to.
MaxSegments == 3

\* ------------------------------------------------------- program constants
updateIntervalSeconds == 20
DefaultStopDuration == 30
StopWindow == 2

\* Progress units per 100 percent: 900 = 2^2 * 3^2 * 5^2.
PUnits == 4 * 9 * 25

Null == 0 - 1
NaN == 0 - 2
\* progressPerUpdate = 100 / 0 (Infinity): Math.min(100, p + Infinity) = 100.
Infinity == 2 * PUnits

TripIds == {"t1", "t2"}
BusIds == {"b1", "b2"}

Min(a, b) == IF a <= b THEN a ELSE b
Max(a, b) == IF a >= b THEN a ELSE b

\* ------------------------------------------------------------ speed model
\* Math.floor(Math.random() * (hi - lo + 1)) + lo
RandomInt(r, lo, hi) == ((r * (hi - lo + 1)) \div RandDen) + lo

\* tripSegments && tripSegments.some(s => toll_entry || toll_exit)
hasTollSegments(tripSegments) ==
    \E i \in DOMAIN tripSegments : tripSegments[i].type \in {"toll_entry", "toll_exit"}

getRealisticSpeed_noClamp(distance, tripSegments, r1, r2) ==
    LET baseSpeed == IF hasTollSegments(tripSegments) THEN RandomInt(r1, 40, 100)
                     ELSE IF distance < 50 THEN RandomInt(r1, 5, 50)
                     ELSE IF distance < 150 THEN RandomInt(r1, 20, 50)
                     ELSE RandomInt(r1, 20, 80)
        variation == ((r2 * 16) \div RandDen) - 10
    IN  baseSpeed + variation

\* The current server's baseline speed; r1, r2 are its two Math.random() draws.
getRealisticSpeed(distance, tripSegments, r1, r2) ==
    LET baseSpeed == IF hasTollSegments(tripSegments) THEN RandomInt(r1, 40, 100)
                     ELSE IF distance < 50 THEN RandomInt(r1, 5, 50)
                     ELSE IF distance < 150 THEN RandomInt(r1, 20, 50)
                     ELSE RandomInt(r1, 20, 80)
        variation == ((r2 * 16) \div RandDen) - 10
    IN  Max(20, Min(85, baseSpeed + variation))

\* The earlier revision's baseline speed (distance bands only).
getRealisticSpeedLegacy(distance, r1, r2) ==
    LET baseSpeed == IF distance < 50 THEN RandomInt(r1, 25, 40)
                     ELSE IF distance < 150 THEN RandomInt(r1, 45, 65)
                     ELSE RandomInt(r1, 60, 80)
        variation == ((r2 * 16) \div RandDen) - 10
    IN  Max(20, Min(85, baseSpeed + variation))

\* ------------------------------------------------------- progress per tick
\* Math.ceil(pureTravelTimeMinutes * 60 / updateIntervalSeconds), with
\* pureTravelTimeMinutes = estimatedDuration || (totalDistance / realisticSpeed) * 60
totalTravelUpdates(estimatedDuration, totalDistance, realisticSpeed) ==
    IF estimatedDuration # 0
    THEN (estimatedDuration * 60 + updateIntervalSeconds - 1) \div updateIntervalSeconds
    ELSE (totalDistance * 60 * 60 + realisticSpeed * updateIntervalSeconds - 1)
             \div (realisticSpeed * updateIntervalSeconds)

\* 100 / totalTravelUpdates, in progress units
progressPerUpdate(n) == IF n = 0 THEN Infinity ELSE PUnits \div n

\* --------------------------------------------------------------- stop logic
\* trip.segments.filter(s => s.type === 'stop'), as indices into the ordered list
stopSegments(segments) == { i \in DOMAIN segments : segments[i].type = "stop" }

\* The i-th (0-based) stop of the ordered stop list, as its index in segments.
StopAt(segments, i) ==
    CHOOSE j \in stopSegments(segments) :
        Cardinality({ k \in stopSegments(segments) : k < j }) = i

\* findStopPositionInRoute: j is the stop's position in the ordered segment
\* list (1-based here, 0-based stopIndex in the code), N the path length.
findStopPositionInRoute(j, N, segments) ==
    IF Len(segments) = 1 THEN NaN
    ELSE Min(((j - 1) * (N - 1)) \div (Len(segments) - 1), N - 1)

\* newProgress >= stopProgressPercent - 2 && newProgress <= stopProgressPercent + 2
\* with stopProgressPercent = (stopRouteIndex / (N - 1)) * 100; NaN compares false.
InStopWindow(P, stopRouteIndex, N) ==
    /\ stopRouteIndex # NaN
    /\ N > 1
    /\ 100 * P * (N - 1) >= 100 * stopRouteIndex * PUnits - StopWindow * PUnits * (N - 1)
    /\ 100 * P * (N - 1) <= 100 * stopRouteIndex * PUnits + StopWindow * PUnits * (N - 1)

\* stopSegment.stop_duration || 30
requiredStopDuration(seg) ==
    IF seg.stop_duration # 0 THEN seg.stop_duration ELSE DefaultStopDuration

\* --------------------------------------------------------------- position
routeIndex_fullLength(P, N) == (P * N) \div PUnits

\* Math.floor((newProgress / 100) * (routeCoordinates.length - 1))
routeIndex(P, N) == (P * (N - 1)) \div PUnits

\* routeCoordinates[routeIndex] || routeCoordinates[0]
currentPosition(P, N) ==
    IF routeIndex(P, N) \in 0..(N - 1) THEN routeIndex(P, N) ELSE 0

\* ------------------------------------------------------------------ state
VARIABLES
    cfg,                \* immutable trip data: bus_id, ordered segments, direct distance
    trips,              \* Trip Store rows (table "trips")
    buses,              \* Vehicle Store: is_active (table "buses")
    bus_locations,      \* Live Location Store rows per bus_id, in insertion order
    feed,               \* change events of "trips" not yet delivered to the handler
    trackingIntervals,  \* Map tripId -> setInterval handle
    activeTrips,        \* Map tripId -> session summary (its key set)
    stopStates,         \* Map tripId -> stop state
    timers,             \* every setInterval handle created so far, with its closure
    ticks,              \* timer callbacks in flight
    reqs,               \* handler activations in flight
    nreq,               \* handler activations admitted so far
    now,                \* Date.now(), seconds
    fired,              \* handles that have fired (or were created) in this period
    dwelt,              \* history: <<trip, i>> for every stop i whose dwell was completed
    cancelled,          \* history: trips whose control-surface cancellation has responded
    env,                \* what a run explores: Math.random() outcomes, clock horizon
    probe               \* a pure function, its arguments and its result

storeVars == <<trips, buses, bus_locations, feed>>
regVars == <<trackingIntervals, activeTrips, stopStates, timers>>
procVars == <<ticks, reqs, nreq>>
clockVars == <<now, fired>>
histVars == <<dwelt, cancelled>>
vars == <<cfg, trips, buses, bus_locations, feed, trackingIntervals, activeTrips,
          stopStates, timers, ticks, reqs, nreq, now, fired, dwelt, cancelled, env, probe>>

NoTrip == [status |-> "NONE"]
\* stopStates.get(id) of an id the map does not hold, and the entry startTripTracking sets
NoState == [present |-> FALSE, isAtStop |-> FALSE, currentStopIndex |-> Null, stopStartTime |-> Null]
FreshStopState == [present |-> TRUE, isAtStop |-> FALSE, currentStopIndex |-> Null, stopStartTime |-> Null]
NoProbe == [fn |-> "none"]

Handles == 1..Len(timers)
LiveTimers(t) == { h \in Handles : timers[h].trip = t /\ timers[h].live }

\* The change event a write to "trips" publishes: payload.new, reduced to the
\* fields the handler and startTripTracking read.
ChangeEvent(eventType, t, row) ==
    [eventType |-> eventType, trip |-> t, status |-> row.status, route |-> row.route,
     distance |-> row.distance, estimated_duration |-> row.estimated_duration]

\* The update without its .eq("id", t) filter: every row takes the fields.
UpdateTrip_allRows(t, newRow) ==
    /\ trips' = [u \in TripIds |-> IF trips[u] = NoTrip THEN NoTrip ELSE newRow]
    /\ feed' = feed \cup {ChangeEvent("UPDATE", t, newRow)}

\* supabase.from("trips").update(fields).eq("id", t): no row, no change, no event.
UpdateTrip(t, newRow) ==
    IF trips[t] = NoTrip
    THEN UNCHANGED <<trips, feed>>
    ELSE /\ trips' = [trips EXCEPT ![t] = newRow]
         /\ feed' = feed \cup {ChangeEvent("UPDATE", t, newRow)}

\* How a store operation ends: it takes effect ("ok"), it returns { error } and has
\* no effect ("error"), or its promise rejects ("throw"). The last two only in the
\* runs that explore store failures.
StoreOutcomes == IF env.fail THEN {"ok", "error", "throw"} ELSE {"ok"}

\* ------------------------------------------------------- stopTripTracking
\* ss is the stopStates map the call starts from.
stopTripTracking_keepStopState(tripId, ss) ==
    IF trackingIntervals[tripId] # Null
    THEN /\ timers' = [timers EXCEPT ![trackingIntervals[tripId]].live = FALSE]
         /\ trackingIntervals' = [trackingIntervals EXCEPT ![tripId] = Null]
         /\ activeTrips' = activeTrips \ {tripId}
         /\ stopStates' = ss
    ELSE /\ stopStates' = ss
         /\ UNCHANGED <<timers, trackingIntervals, activeTrips>>

stopTripTracking(tripId, ss) ==
    IF trackingIntervals[tripId] # Null
    THEN /\ timers' = [timers EXCEPT ![trackingIntervals[tripId]].live = FALSE]
         /\ trackingIntervals' = [trackingIntervals EXCEPT ![tripId] = Null]
         /\ activeTrips' = activeTrips \ {tripId}
         /\ stopStates' = [ss EXCEPT ![tripId] = NoState]
    ELSE /\ stopStates' = ss
         /\ UNCHANGED <<timers, trackingIntervals, activeTrips>>

\* ------------------------------------------------------------ tick: stops
\* The stops (0-based, in stop order) whose window holds the progress P.
StopCandidates(P, N, segments) ==
    { i \in 0..(Cardinality(stopSegments(segments)) - 1) :
        InStopWindow(P, findStopPositionInRoute(StopAt(segments, i), N, segments), N) }

\* The loop without its break: the last stop in the window decides.
StopLogic_last(st, P, N, segments, clock) ==
    LET cand == StopCandidates(P, N, segments) IN
    IF cand = {}
    THEN [state |-> st, isMoving |-> TRUE, completed |-> Null]
    ELSE LET i == CHOOSE x \in cand : \A y \in cand : x >= y
             seg == segments[StopAt(segments, i)]
             arrived == ~st.isAtStop \/ st.currentStopIndex # i
             st1 == IF arrived
                    THEN [st EXCEPT !.isAtStop = TRUE, !.currentStopIndex = i,
                                    !.stopStartTime = clock]
                    ELSE st
             stopElapsedSeconds == IF st1.stopStartTime # Null /\ st1.stopStartTime # 0
                                   THEN clock - st1.stopStartTime ELSE 0
         IN  IF stopElapsedSeconds < requiredStopDuration(seg) * 60
             THEN [state |-> st1, isMoving |-> FALSE, completed |-> Null]
             ELSE [state |-> [st1 EXCEPT !.isAtStop = FALSE, !.currentStopIndex = Null,
                                         !.stopStartTime = Null],
                   isMoving |-> TRUE, completed |-> i]

\* The for loop over stopState.stopSegments: the first stop in the window decides
\* (every branch under the window test ends in break).
StopLogic(st, P, N, segments, clock) ==
    LET cand == StopCandidates(P, N, segments) IN
    IF cand = {}
    THEN [state |-> st, isMoving |-> TRUE, completed |-> Null]
    ELSE LET i == CHOOSE x \in cand : \A y \in cand : x <= y
             seg == segments[StopAt(segments, i)]
             arrived == ~st.isAtStop \/ st.currentStopIndex # i
             st1 == IF arrived
                    THEN [st EXCEPT !.isAtStop = TRUE, !.currentStopIndex = i,
                                    !.stopStartTime = clock]
                    ELSE st
             stopElapsedSeconds == IF st1.stopStartTime # Null /\ st1.stopStartTime # 0
                                   THEN clock - st1.stopStartTime ELSE 0
         IN  IF stopElapsedSeconds < requiredStopDuration(seg) * 60
             THEN [state |-> st1, isMoving |-> FALSE, completed |-> Null]
             ELSE [state |-> [st1 EXCEPT !.isAtStop = FALSE, !.currentStopIndex = Null,
                                         !.stopStartTime = Null],
                   isMoving |-> TRUE, completed |-> i]

\* Math.max(15, Math.min(90, realisticSpeed + speedVariation))
tickSpeed(realisticSpeed, speedVariation) ==
    Max(15, Min(90, realisticSpeed + speedVariation))

\* speed: isMoving ? Math.round(currentSpeed) : 0
updatesSpeed_noZero(isMoving, currentSpeed) == currentSpeed

updatesSpeed(isMoving, currentSpeed) == IF isMoving THEN currentSpeed ELSE 0

\* Math.min(100, currentTrip.progress + progressPerUpdate)
advance(progress, ppu) == Min(PUnits, progress + ppu)

\* ------------------------------------------------------------------- tick
\* The timer of handle h fires and the callback runs to its first write: the
\* select of the trip, the status check, the stop logic, the new progress,
\* position and speed.
TickStart(h) ==
    /\ h \in Handles
    /\ timers[h].live
    /\ h \notin fired
    /\ fired' = fired \cup {h}
    /\ \E o \in StoreOutcomes :
       LET tm == timers[h]
           t == tm.trip
           currentTrip == trips[t]
       IN  IF o = "throw"
           THEN UNCHANGED <<regVars, ticks, dwelt>>
           ELSE IF o = "error" \/ currentTrip = NoTrip \/ currentTrip.status # "IN_PROGRESS"
           THEN /\ stopTripTracking(t, stopStates)
                /\ UNCHANGED <<ticks, dwelt>>
           ELSE IF ~stopStates[t].present
           THEN UNCHANGED <<regVars, ticks, dwelt>>
           ELSE \E v \in env.tick :
                LET r == StopLogic(stopStates[t], currentTrip.progress, tm.N,
                                   cfg[t].segments, now)
                    currentSpeed == IF r.isMoving THEN tickSpeed(tm.realisticSpeed, v)
                                    ELSE tm.currentSpeed
                    newProgress == IF r.isMoving THEN advance(currentTrip.progress, tm.ppu)
                                   ELSE currentTrip.progress
                IN  /\ stopStates' = [stopStates EXCEPT ![t] = r.state]
                    /\ timers' = [timers EXCEPT ![h].currentSpeed = currentSpeed]
                    /\ dwelt' = IF r.completed # Null THEN dwelt \cup {<<t, r.completed>>}
                                ELSE dwelt
                    /\ ticks' = ticks \cup
                         {[h |-> h, at |-> now,
                           pc |-> IF newProgress >= PUnits THEN "upd_bus" ELSE "upd_trip",
                           isMoving |-> r.isMoving,
                           upd |-> [progress |-> newProgress,
                                    pos |-> currentPosition(newProgress, tm.N),
                                    speed |-> updatesSpeed(r.isMoving, currentSpeed),
                                    complete |-> newProgress >= PUnits]]}
                    /\ UNCHANGED <<trackingIntervals, activeTrips>>
    /\ UNCHANGED <<cfg, storeVars, reqs, nreq, now, cancelled, env, probe>>

\* supabase.from("buses").update({ is_active: false }) of a completing tick takes effect
TickUpdateBus(k) ==
    /\ k \in ticks
    /\ k.pc = "upd_bus"
    /\ \E o \in StoreOutcomes :
         /\ buses' = IF o = "ok" THEN [buses EXCEPT ![cfg[timers[k.h].trip].bus_id] = FALSE]
                     ELSE buses
         /\ ticks' = IF o = "throw" THEN ticks \ {k}
                     ELSE (ticks \ {k}) \cup {[k EXCEPT !.pc = "upd_trip"]}
    /\ UNCHANGED <<cfg, trips, bus_locations, feed, regVars, reqs, nreq, clockVars,
                   histVars, env, probe>>

\* The row a tick's update leaves: progress, position, speed, and on completion
\* status and end_time.
TickRow(row, upd) ==
    IF upd.complete
    THEN [row EXCEPT !.progress = upd.progress, !.pos = upd.pos, !.speed = upd.speed,
                     !.status = "COMPLETED", !.end_time = TRUE]
    ELSE [row EXCEPT !.progress = upd.progress, !.pos = upd.pos, !.speed = upd.speed]

\* supabase.from("trips").update(updates).eq("id", trip.id) takes effect
TickUpdateTrip(k) ==
    /\ k \in ticks
    /\ k.pc = "upd_trip"
    /\ \E o \in StoreOutcomes :
         /\ IF o = "ok"
            THEN UpdateTrip(timers[k.h].trip, TickRow(trips[timers[k.h].trip], k.upd))
            ELSE UNCHANGED <<trips, feed>>
         /\ ticks' = IF o = "throw" THEN ticks \ {k}
                     ELSE (ticks \ {k}) \cup {[k EXCEPT !.pc = "del_loc"]}
    /\ UNCHANGED <<cfg, buses, bus_locations, regVars, reqs, nreq, clockVars, histVars,
                   env, probe>>

\* supabase.from("bus_locations").delete().eq("bus_id", trip.bus_id) takes effect
TickDeleteLocation(k) ==
    /\ k \in ticks
    /\ k.pc = "del_loc"
    /\ \E o \in StoreOutcomes :
         /\ bus_locations' = IF o = "ok"
                             THEN [bus_locations EXCEPT ![cfg[timers[k.h].trip].bus_id] = <<>>]
                             ELSE bus_locations
         /\ ticks' = IF o = "throw" THEN ticks \ {k}
                     ELSE (ticks \ {k}) \cup {[k EXCEPT !.pc = "ins_loc"]}
    /\ UNCHANGED <<cfg, trips, buses, feed, regVars, reqs, nreq, clockVars, histVars,
                   env, probe>>

\* supabase.from("bus_locations").insert({...}) takes effect and the callback runs
\* to its end: on completion stopStates.delete(trip.id); stopTripTracking(trip.id)
TickInsertLocation(k) ==
    /\ k \in ticks
    /\ k.pc = "ins_loc"
    /\ \E o \in StoreOutcomes :
         /\ bus_locations' =
              IF o = "ok"
              THEN [bus_locations EXCEPT ![cfg[timers[k.h].trip].bus_id] =
                      Append(@, [trip_id |-> timers[k.h].trip, progress |-> k.upd.progress,
                                 pos |-> k.upd.pos])]
              ELSE bus_locations
         /\ IF k.upd.complete /\ o # "throw"
            THEN stopTripTracking(timers[k.h].trip,
                                  [stopStates EXCEPT ![timers[k.h].trip] = NoState])
            ELSE UNCHANGED regVars
    /\ ticks' = ticks \ {k}
    /\ UNCHANGED <<cfg, trips, buses, feed, reqs, nreq, clockVars, histVars, env, probe>>

\* ------------------------------------------------------ startTripTracking
\* The fields of a trip row a caller hands to startTripTracking.
RowSnap(row) ==
    [route |-> row.route, distance |-> row.distance,
     estimated_duration |-> row.estimated_duration]

FreeId == CHOOSE i \in 1..(Cardinality(reqs) + 1) : \A r \in reqs : r.id # i

\* A startTripTracking call is admitted only while a handle is left for it.
HandleLeft ==
    Len(timers) + Cardinality({r \in reqs : r.kind \in {"start", "feed"}}) < MaxTimers

startTripTrackingEnter_noClear(t) ==
    /\ timers' = timers
    /\ stopStates' = [stopStates EXCEPT ![t] = FreshStopState]
    /\ UNCHANGED <<trackingIntervals, activeTrips>>

\* Up to the first await: clear the registered timer (its map entry stays) and
\* set a fresh stop state.
startTripTrackingEnter(t) ==
    /\ timers' = IF trackingIntervals[t] # Null
                 THEN [timers EXCEPT ![trackingIntervals[t]].live = FALSE]
                 ELSE timers
    /\ stopStates' = [stopStates EXCEPT ![t] = FreshStopState]
    /\ UNCHANGED <<trackingIntervals, activeTrips>>

\* The closure of the periodic callback startTripTracking creates for trip t from
\* the row fields snap and the draws r1, r2 of getRealisticSpeed.
NewTimer(t, snap, r1, r2) ==
    LET hasRoute == snap.route > 0
        N == IF hasRoute THEN snap.route ELSE 2
        totalDistance == IF hasRoute THEN snap.distance ELSE cfg[t].directDistance
        realisticSpeed == getRealisticSpeed(totalDistance, cfg[t].segments, r1, r2)
        n == totalTravelUpdates(snap.estimated_duration, totalDistance, realisticSpeed)
    IN  [trip |-> t, live |-> TRUE, N |-> N, ppu |-> progressPerUpdate(n),
         realisticSpeed |-> realisticSpeed, currentSpeed |-> realisticSpeed]

\* The branches of the route choice that are modelled, and a handle is left.
CanRegister(t, snap) ==
    /\ snap.route > 0 \/ cfg[t].segments = <<>>
    /\ Len(timers) < MaxTimers

\* From the bus select's return to the end, for a trip with a persisted route or
\* with no segments: route choice, speed, increment, setInterval, registration.
startTripTrackingRegister(t, snap, r1, r2) ==
    /\ CanRegister(t, snap)
    /\ timers' = Append(timers, NewTimer(t, snap, r1, r2))
    /\ trackingIntervals' = [trackingIntervals EXCEPT ![t] = Len(timers) + 1]
    /\ activeTrips' = activeTrips \cup {t}
    /\ fired' = fired \cup {Len(timers) + 1}
    /\ UNCHANGED stopStates

\* A caller's startTripTracking call returns from its bus select and runs to its end.
TrackResume(r) ==
    /\ r \in reqs
    /\ r.pc = "sel_bus"
    /\ \E r1 \in env.session, r2 \in env.session :
           startTripTrackingRegister(r.trip, r.snap, r1, r2)
    /\ reqs' = reqs \ {r}
    /\ UNCHANGED <<cfg, storeVars, ticks, nreq, now, histVars, env, probe>>

\* ---------------------------------------------- POST /api/trips/:tripId/start
\* The handler without its 404 return: it goes on with an empty row.
StartRequest_noCheck(t) ==
    /\ nreq < MaxRequests
    /\ HandleLeft
    /\ nreq' = nreq + 1
    /\ reqs' = reqs \cup {[id |-> FreeId, kind |-> "start", trip |-> t,
                           pc |-> "upd_trip",
                           snap |-> [route |-> 0, distance |-> 0,
                                     estimated_duration |-> 0]]}
    /\ UNCHANGED <<cfg, storeVars, regVars, ticks, clockVars, histVars, env, probe>>

\* The request arrives and its select takes effect: 404 when the trip is missing.
StartRequest(t) ==
    /\ nreq < MaxRequests
    /\ HandleLeft
    /\ nreq' = nreq + 1
    /\ reqs' = IF trips[t] = NoTrip THEN reqs
               ELSE reqs \cup {[id |-> FreeId, kind |-> "start", trip |-> t,
                                pc |-> "upd_trip", snap |-> RowSnap(trips[t])]}
    /\ UNCHANGED <<cfg, storeVars, regVars, ticks, clockVars, histVars, env, probe>>

\* update({ status: "IN_PROGRESS", start_time }) takes effect
StartUpdateTrip(r) ==
    /\ r \in reqs
    /\ r.kind = "start" /\ r.pc = "upd_trip"
    /\ UpdateTrip(r.trip, [trips[r.trip] EXCEPT !.status = "IN_PROGRESS"])
    /\ reqs' = (reqs \ {r}) \cup {[r EXCEPT !.pc = "upd_bus"]}
    /\ UNCHANGED <<cfg, buses, bus_locations, regVars, ticks, nreq, clockVars, histVars,
                   env, probe>>

\* buses.update({ is_active: true }) takes effect and the handler calls
\* startTripTracking({ ...trip, status: "IN_PROGRESS" })
StartUpdateBus(r) ==
    /\ r \in reqs
    /\ r.kind = "start" /\ r.pc = "upd_bus"
    /\ buses' = [buses EXCEPT ![cfg[r.trip].bus_id] = TRUE]
    /\ startTripTrackingEnter(r.trip)
    /\ reqs' = (reqs \ {r}) \cup {[r EXCEPT !.pc = "sel_bus"]}
    /\ UNCHANGED <<cfg, trips, bus_locations, feed, ticks, nreq, clockVars, histVars,
                   env, probe>>

\* --------------------------------------------- POST /api/trips/:tripId/cancel
\* The request arrives, its select takes effect (404 when the trip is missing)
\* and the handler calls stopTripTracking(tripId).
CancelRequest(t) ==
    /\ nreq < MaxRequests
    /\ nreq' = nreq + 1
    /\ IF trips[t] = NoTrip
       THEN UNCHANGED <<reqs, regVars>>
       ELSE /\ reqs' = reqs \cup {[id |-> FreeId, kind |-> "cancel", trip |-> t,
                                   pc |-> "upd_trip", snap |-> RowSnap(trips[t])]}
            /\ stopTripTracking(t, stopStates)
    /\ UNCHANGED <<cfg, storeVars, ticks, clockVars, histVars, env, probe>>

\* update({ status: "CANCELLED", end_time }) takes effect
CancelUpdateTrip(r) ==
    /\ r \in reqs
    /\ r.kind = "cancel" /\ r.pc = "upd_trip"
    /\ UpdateTrip(r.trip, [trips[r.trip] EXCEPT !.status = "CANCELLED", !.end_time = TRUE])
    /\ reqs' = (reqs \ {r}) \cup {[r EXCEPT !.pc = "upd_bus"]}
    /\ UNCHANGED <<cfg, buses, bus_locations, regVars, ticks, nreq, clockVars, histVars,
                   env, probe>>

\* buses.update({ is_active: false }) takes effect
CancelUpdateBus(r) ==
    /\ r \in reqs
    /\ r.kind = "cancel" /\ r.pc = "upd_bus"
    /\ buses' = [buses EXCEPT ![cfg[r.trip].bus_id] = FALSE]
    /\ reqs' = (reqs \ {r}) \cup {[r EXCEPT !.pc = "del_loc"]}
    /\ UNCHANGED <<cfg, trips, bus_locations, feed, regVars, ticks, nreq, clockVars,
                   histVars, env, probe>>

\* bus_locations.delete().eq("bus_id", trip.bus_id) takes effect; the handler responds
CancelDeleteLocation(r) ==
    /\ r \in reqs
    /\ r.kind = "cancel" /\ r.pc = "del_loc"
    /\ bus_locations' = [bus_locations EXCEPT ![cfg[r.trip].bus_id] = <<>>]
    /\ reqs' = reqs \ {r}
    /\ cancelled' = cancelled \cup {r.trip}
    /\ UNCHANGED <<cfg, trips, buses, feed, regVars, ticks, nreq, clockVars, dwelt,
                   env, probe>>

\* ----------------------------------------------------- initializeTracking
\* The rows a select .eq("status", status) returns, in an order the store chooses.
SelectByStatus_none(status) == {<<>>}

SelectByStatus(status) ==
    LET ids == {t \in TripIds : trips[t] # NoTrip /\ trips[t].status = status}
    IN  {sq \in UNION {[1..n -> ids] : n \in 0..Cardinality(TripIds)} :
           /\ Len(sq) = Cardinality(ids)
           /\ \A i \in 1..Len(sq), j \in 1..Len(sq) : i # j => sq[i] # sq[j]}

\* The coordinate of a trip's departure, as the position of a location record.
Departure == 0 - 3

\* The record pre-positioning inserts for trip t.
PrePositionRecord(t) == [trip_id |-> t, progress |-> 0, pos |-> Departure]

\* The process as app.listen's callback finds it: initializeTracking is called
\* and suspended at its test select.
BootCall == [id |-> 0, kind |-> "init", trip |-> "none", pc |-> "test",
             snap |-> [route |-> 0, distance |-> 0, estimated_duration |-> 0],
             todo |-> <<>>]

\* The test select returns without error; the select of IN_PROGRESS trips is sent.
BootTest(r) ==
    /\ r \in reqs
    /\ r.kind = "init" /\ r.pc = "test"
    /\ reqs' = (reqs \ {r}) \cup {[r EXCEPT !.pc = "sel_inprog"]}
    /\ UNCHANGED <<cfg, storeVars, regVars, ticks, nreq, clockVars, histVars, env, probe>>

\* The select of IN_PROGRESS trips returns: startTripTracking is called for the
\* first, or, with none, the select of PENDING trips is sent.
BootSelectInProgress(r) ==
    /\ r \in reqs
    /\ r.kind = "init" /\ r.pc = "sel_inprog"
    /\ \E sq \in SelectByStatus("IN_PROGRESS") :
         IF sq = <<>>
         THEN /\ reqs' = (reqs \ {r}) \cup {[r EXCEPT !.pc = "sel_pending"]}
              /\ UNCHANGED regVars
         ELSE /\ startTripTrackingEnter(sq[1])
              /\ reqs' = (reqs \ {r}) \cup
                    {[r EXCEPT !.pc = "sel_bus", !.trip = sq[1],
                               !.snap = RowSnap(trips[sq[1]]),
                               !.todo = [i \in 1..(Len(sq) - 1) |->
                                           [trip |-> sq[i + 1],
                                            snap |-> RowSnap(trips[sq[i + 1]])]]]}
    /\ UNCHANGED <<cfg, storeVars, ticks, nreq, clockVars, histVars, env, probe>>

\* The startTripTracking call of the loop returns from its bus select and runs to
\* its end; the loop calls startTripTracking for the next trip, up to its bus
\* select, or, after the last, the select of PENDING trips is sent.
BootTrackResume(r) ==
    /\ r \in reqs
    /\ r.kind = "init" /\ r.pc = "sel_bus"
    /\ CanRegister(r.trip, r.snap)
    /\ \E r1 \in env.session, r2 \in env.session :
         LET h == Len(timers) + 1
             registered == [trackingIntervals EXCEPT ![r.trip] = h]
             created == Append(timers, NewTimer(r.trip, r.snap, r1, r2))
         IN  /\ trackingIntervals' = registered
             /\ activeTrips' = activeTrips \cup {r.trip}
             /\ fired' = fired \cup {h}
             /\ IF r.todo = <<>>
                THEN /\ timers' = created
                     /\ UNCHANGED stopStates
                     /\ reqs' = (reqs \ {r}) \cup {[r EXCEPT !.pc = "sel_pending"]}
                ELSE LET nx == Head(r.todo) IN
                     /\ timers' = IF registered[nx.trip] # Null
                                  THEN [created EXCEPT ![registered[nx.trip]].live = FALSE]
                                  ELSE created
                     /\ stopStates' = [stopStates EXCEPT ![nx.trip] = FreshStopState]
                     /\ reqs' = (reqs \ {r}) \cup
                           {[r EXCEPT !.trip = nx.trip, !.snap = nx.snap,
                                      !.todo = Tail(r.todo)]}
    /\ UNCHANGED <<cfg, storeVars, ticks, nreq, now, histVars, env, probe>>

\* The select of PENDING trips returns: the delete for the first is sent, or, with
\* none, initializeTracking returns.
BootSelectPending(r) ==
    /\ r \in reqs
    /\ r.kind = "init" /\ r.pc = "sel_pending"
    /\ \E sq \in SelectByStatus("PENDING") :
         reqs' = IF sq = <<>> THEN reqs \ {r}
                 ELSE (reqs \ {r}) \cup
                      {[r EXCEPT !.pc = "pre_del", !.trip = sq[1],
                                 !.snap = RowSnap(trips[sq[1]]),
                                 !.todo = [i \in 1..(Len(sq) - 1) |->
                                             [trip |-> sq[i + 1],
                                              snap |-> RowSnap(trips[sq[i + 1]])]]]}
    /\ UNCHANGED <<cfg, storeVars, regVars, ticks, nreq, clockVars, histVars, env, probe>>

\* bus_locations.delete().eq("bus_id", trip.bus_id) of pre-positioning takes effect
PrePositionDelete(r) ==
    /\ r \in reqs
    /\ r.pc = "pre_del"
    /\ bus_locations' = [bus_locations EXCEPT ![cfg[r.trip].bus_id] = <<>>]
    /\ reqs' = (reqs \ {r}) \cup {[r EXCEPT !.pc = "pre_ins"]}
    /\ UNCHANGED <<cfg, trips, buses, feed, regVars, ticks, nreq, clockVars, histVars,
                   env, probe>>

\* bus_locations.insert({ ..., progress: 0 }) of pre-positioning takes effect; the
\* loop of initializeTracking goes on to the next PENDING trip, the handler of an
\* INSERT event returns.
PrePositionInsert(r) ==
    /\ r \in reqs
    /\ r.pc = "pre_ins"
    /\ bus_locations' = [bus_locations EXCEPT ![cfg[r.trip].bus_id] =
                            Append(@, PrePositionRecord(r.trip))]
    /\ reqs' = IF r.todo = <<>> THEN reqs \ {r}
               ELSE (reqs \ {r}) \cup
                    {[r EXCEPT !.pc = "pre_del", !.trip = Head(r.todo).trip,
                               !.snap = Head(r.todo).snap, !.todo = Tail(r.todo)]}
    /\ UNCHANGED <<cfg, trips, buses, feed, regVars, ticks, nreq, clockVars, histVars,
                   env, probe>>

\* ------------------------------------------------------------ change feed
\* The postgres_changes handler runs on an UPDATE event up to its first await.
FeedUpdate(e) ==
    /\ e \in feed
    /\ e.eventType = "UPDATE"
    /\ feed' = feed \ {e}
    /\ IF e.status = "IN_PROGRESS" /\ e.trip \notin activeTrips
       THEN /\ HandleLeft
            /\ startTripTrackingEnter(e.trip)
            /\ reqs' = reqs \cup {[id |-> FreeId, kind |-> "feed", trip |-> e.trip,
                                   pc |-> "sel_bus", snap |-> RowSnap(e)]}
       ELSE IF e.status # "IN_PROGRESS" /\ e.trip \in activeTrips
       THEN /\ stopTripTracking(e.trip, stopStates)
            /\ UNCHANGED reqs
       ELSE UNCHANGED <<regVars, reqs>>
    /\ UNCHANGED <<cfg, trips, buses, bus_locations, ticks, nreq, clockVars, histVars,
                   env, probe>>

\* The postgres_changes handler runs on an INSERT event up to its first await: for
\* a PENDING trip, the delete of pre-positioning is sent.
FeedInsert(e) ==
    /\ e \in feed
    /\ e.eventType = "INSERT"
    /\ feed' = feed \ {e}
    /\ reqs' = IF e.status = "PENDING"
               THEN reqs \cup {[id |-> FreeId, kind |-> "inserted", trip |-> e.trip,
                                pc |-> "pre_del", snap |-> RowSnap(e), todo |-> <<>>]}
               ELSE reqs
    /\ UNCHANGED <<cfg, trips, buses, bus_locations, regVars, ticks, nreq, clockVars,
                   histVars, env, probe>>

\* Another client of the Trip Store starts the trip.
ExternalStart(t) ==
    /\ nreq < MaxRequests
    /\ nreq' = nreq + 1
    /\ trips[t] # NoTrip
    /\ trips[t].status = "PENDING"
    /\ UpdateTrip(t, [trips[t] EXCEPT !.status = "IN_PROGRESS"])
    /\ UNCHANGED <<cfg, buses, bus_locations, regVars, ticks, reqs, clockVars, histVars,
                   env, probe>>

\* Another client of the Trip Store cancels the trip.
ExternalCancel(t) ==
    /\ nreq < MaxRequests
    /\ nreq' = nreq + 1
    /\ trips[t] # NoTrip
    /\ trips[t].status \in {"PENDING", "IN_PROGRESS"}
    /\ UpdateTrip(t, [trips[t] EXCEPT !.status = "CANCELLED", !.end_time = TRUE])
    /\ UNCHANGED <<cfg, buses, bus_locations, regVars, ticks, reqs, clockVars, histVars,
                   env, probe>>

\* ----------------------------------------------------------------- SIGINT
\* The position of the SIGINT handler once it has called process.exit(0).
Exited == [id |-> 0, kind |-> "sigint", trip |-> "none", pc |-> "exited"]

Running == Exited \notin reqs

\* The handler ends without ending the timers of the process: the timers tms
\* stay as the handler left them.
ProcessExit_return(tms) ==
    /\ timers' = tms
    /\ ticks' = {}
    /\ reqs' = {Exited}

\* process.exit(0): every timer of the process ends with it, the ones no map
\* holds included, and no callback or handler in flight resumes. tms are the
\* timers as the handler left them.
ProcessExit(tms) ==
    /\ timers' = [h \in DOMAIN tms |-> [tms[h] EXCEPT !.live = FALSE]]
    /\ ticks' = {}
    /\ reqs' = {Exited}

\* The SIGINT handler: clearInterval for every entry of trackingIntervals, the
\* three maps cleared, process.exit(0).
Shutdown ==
    /\ Running
    /\ trackingIntervals' = [t \in TripIds |-> Null]
    /\ activeTrips' = {}
    /\ stopStates' = [t \in TripIds |-> NoState]
    /\ ProcessExit([h \in Handles |->
                      IF \E t \in TripIds : trackingIntervals[t] = h
                      THEN [timers[h] EXCEPT !.live = FALSE] ELSE timers[h]])
    /\ UNCHANGED <<cfg, storeVars, nreq, clockVars, histVars, env, probe>>

\* ------------------------------------------------------------------ clock
StartClock == 1000 * updateIntervalSeconds

\* A period of updateIntervalSeconds ends: every live timer has fired in it.
Advance ==
    /\ now < StartClock + env.horizon * updateIntervalSeconds
    /\ \A h \in Handles : timers[h].live => h \in fired
    /\ now' = now + updateIntervalSeconds
    /\ fired' = {}
    /\ UNCHANGED <<cfg, storeVars, regVars, procVars, histVars, env, probe>>

\* ------------------------------------------------------------------- init
Point == [type |-> "point", stop_duration |-> 0]
Stop(d) == [type |-> "stop", stop_duration |-> d]
Toll(kind) == [type |-> kind, stop_duration |-> 0]

NewTrip(c) ==
    [status |-> "PENDING", progress |-> 0, speed |-> 0, pos |-> 0, route |-> c.route,
     distance |-> c.distance, estimated_duration |-> c.estimated_duration,
     end_time |-> FALSE]

\* A trip row as the store holds it when the process starts: a PENDING trip as it
\* was created, an IN_PROGRESS trip as the ticks of an earlier process left it.
StoredProgress == PUnits \div 3

StoredTrip(c, status) ==
    IF status = "IN_PROGRESS"
    THEN [NewTrip(c) EXCEPT !.status = "IN_PROGRESS", !.progress = StoredProgress]
    ELSE NewTrip(c)

\* The process right after construction. The Trip Store holds trip t in status
\* statusOf[t] ("absent": no row), of configuration c, on vehicle busOf[t]; a
\* vehicle on an IN_PROGRESS trip is active and has that trip's location record;
\* calls are the handlers already suspended; e is what the run explores.
InitStore(statusOf, busOf, c, calls, e) ==
    /\ cfg = [t \in TripIds |-> [bus_id |-> busOf[t], segments |-> c.segments,
                                 directDistance |-> c.directDistance]]
    /\ trips = [t \in TripIds |-> IF statusOf[t] = "absent" THEN NoTrip
                                  ELSE StoredTrip(c, statusOf[t])]
    /\ buses = [b \in BusIds |->
                  \E t \in TripIds : busOf[t] = b /\ statusOf[t] = "IN_PROGRESS"]
    /\ bus_locations =
         [b \in BusIds |->
            LET on == {t \in TripIds : busOf[t] = b /\ statusOf[t] = "IN_PROGRESS"}
            IN  IF on = {} THEN <<>>
                ELSE <<[trip_id |-> CHOOSE t \in on : TRUE, progress |-> StoredProgress,
                        pos |-> 0]>>]
    /\ feed = {}
    /\ trackingIntervals = [t \in TripIds |-> Null]
    /\ activeTrips = {}
    /\ stopStates = [t \in TripIds |-> NoState]
    /\ timers = <<>>
    /\ ticks = {}
    /\ reqs = calls
    /\ nreq = 0
    /\ now = StartClock
    /\ fired = {}
    /\ dwelt = {}
    /\ cancelled = {}
    /\ env = e

\* The store holds the one trip t1, PENDING, on vehicle b1.
InitTracker(c, e) ==
    InitStore([t \in TripIds |-> IF t = "t1" THEN "PENDING" ELSE "absent"],
              [t \in TripIds |-> "b1"], c, {}, e)

InitWith(c, e) == InitTracker(c, e) /\ probe = NoProbe

RaceConfigs ==
    {[segments |-> <<>>, directDistance |-> 1, route |-> 3, distance |-> 1,
      estimated_duration |-> 1]}

RaceEnv == [session |-> {0}, tick |-> {0}, horizon |-> MaxClock, fail |-> FALSE]

Init == \E c \in RaceConfigs : InitWith(c, RaceEnv)

TickStep ==
    \/ \E h \in Handles : TickStart(h)
    \/ \E k \in ticks : TickUpdateBus(k)
    \/ \E k \in ticks : TickUpdateTrip(k)
    \/ \E k \in ticks : TickDeleteLocation(k)
    \/ \E k \in ticks : TickInsertLocation(k)

Next ==
    \/ TickStep
    \/ Advance
    \/ \E t \in TripIds : StartRequest(t)
    \/ \E r \in reqs : StartUpdateTrip(r)
    \/ \E r \in reqs : StartUpdateBus(r)
    \/ \E r \in reqs : TrackResume(r)
    \/ \E t \in TripIds : CancelRequest(t)
    \/ \E r \in reqs : CancelUpdateTrip(r)
    \/ \E r \in reqs : CancelUpdateBus(r)
    \/ \E r \in reqs : CancelDeleteLocation(r)
    \/ \E e \in feed : FeedUpdate(e)
    \/ \E t \in TripIds : ExternalCancel(t)

Spec == Init /\ [][Next]_vars

\* --------------------------------------------------------------- shutdown
\* The process of Spec, which a SIGINT may end at any point.
NextStop ==
    \/ Running /\ \E h \in Handles : TickStart(h)
    \/ Running /\ \E k \in ticks : TickUpdateBus(k)
    \/ Running /\ \E k \in ticks : TickUpdateTrip(k)
    \/ Running /\ \E k \in ticks : TickDeleteLocation(k)
    \/ Running /\ \E k \in ticks : TickInsertLocation(k)
    \/ Running /\ Advance
    \/ Running /\ \E t \in TripIds : StartRequest(t)
    \/ Running /\ \E r \in reqs : StartUpdateTrip(r)
    \/ Running /\ \E r \in reqs : StartUpdateBus(r)
    \/ Running /\ \E r \in reqs : TrackResume(r)
    \/ Running /\ \E t \in TripIds : CancelRequest(t)
    \/ Running /\ \E r \in reqs : CancelUpdateTrip(r)
    \/ Running /\ \E r \in reqs : CancelUpdateBus(r)
    \/ Running /\ \E r \in reqs : CancelDeleteLocation(r)
    \/ Running /\ \E e \in feed : FeedUpdate(e)
    \/ Running /\ \E t \in TripIds : ExternalCancel(t)
    \/ Shutdown

SpecStop == Init /\ [][NextStop]_vars

\* ------------------------------------------- serialized startTripTracking
\* No startTripTracking call for a trip begins while another call for the same
\* trip is suspended at its bus select.
SerialStarts ==
    \A t \in TripIds : Cardinality({r \in reqs : r.trip = t /\ r.pc = "sel_bus"}) <= 1

\* A trip of three travel ticks, and one that completes on its first tick
\* (distance 0 and no estimated duration: progressPerUpdate is Infinity).
SerialConfigs ==
    RaceConfigs \cup
    {[segments |-> <<>>, directDistance |-> 0, route |-> 2, distance |-> 0,
      estimated_duration |-> 0]}

SerialEnv == [session |-> {0}, tick |-> {0}, horizon |-> MaxClock, fail |-> FALSE]

InitSerial == \E c \in SerialConfigs : InitWith(c, SerialEnv)

NextSerial ==
    \/ \E h \in Handles : TickStart(h)
    \/ \E k \in ticks : TickUpdateBus(k)
    \/ \E k \in ticks : TickUpdateTrip(k)
    \/ \E k \in ticks : TickDeleteLocation(k)
    \/ \E k \in ticks : TickInsertLocation(k)
    \/ Advance
    \/ \E t \in TripIds : StartRequest(t)
    \/ \E r \in reqs : StartUpdateTrip(r)
    \/ \E r \in reqs : StartUpdateBus(r) /\ SerialStarts'
    \/ \E r \in reqs : TrackResume(r)
    \/ \E t \in TripIds : CancelRequest(t)
    \/ \E r \in reqs : CancelUpdateTrip(r)
    \/ \E r \in reqs : CancelUpdateBus(r)
    \/ \E r \in reqs : CancelDeleteLocation(r)
    \/ \E e \in feed : FeedUpdate(e) /\ SerialStarts'
    \/ \E t \in TripIds : ExternalCancel(t)

SpecSerial == InitSerial /\ [][NextSerial]_vars

\* ------------------------------------------------------ one session, dwell
\* One start request; every store operation of a tick returns before the next
\* period begins, so ticks do not overlap; no change event is delivered; the
\* clock is followed from the creation of the timer.
DwellConfigs ==
    {[segments |-> <<Point, Stop(1), Point>>, directDistance |-> 1, route |-> 4,
      distance |-> 1, estimated_duration |-> 1],
     [segments |-> <<Point, Stop(1), Point>>, directDistance |-> 1, route |-> 3,
      distance |-> 1, estimated_duration |-> 1],
     [segments |-> <<Point, Stop(0), Point>>, directDistance |-> 1, route |-> 4,
      distance |-> 1, estimated_duration |-> 1],
     [segments |-> <<Point, Stop(1), Point>>, directDistance |-> 1, route |-> 3,
      distance |-> 30, estimated_duration |-> 20],
     [segments |-> <<Stop(2), Point>>, directDistance |-> 1, route |-> 3,
      distance |-> 1, estimated_duration |-> 2],
     [segments |-> <<Point, Stop(1)>>, directDistance |-> 1, route |-> 3,
      distance |-> 200, estimated_duration |-> 20],
     [segments |-> <<Stop(1)>>, directDistance |-> 1, route |-> 3,
      distance |-> 60, estimated_duration |-> 1],
     [segments |-> <<Point, Stop(1), Point>>, directDistance |-> 1, route |-> 1,
      distance |-> 0, estimated_duration |-> 0],
     [segments |-> <<Toll("toll_entry"), Toll("toll_exit")>>, directDistance |-> 1,
      route |-> 2, distance |-> 160, estimated_duration |-> 1],
     [segments |-> <<>>, directDistance |-> 1, route |-> 0, distance |-> 0,
      estimated_duration |-> 0],
     [segments |-> <<Stop(1), Stop(2), Point>>, directDistance |-> 1, route |-> 2,
      distance |-> 1, estimated_duration |-> 1],
     [segments |-> <<Point, Stop(1), Point>>, directDistance |-> 1, route |-> 3,
      distance |-> 1, estimated_duration |-> 25]}

DwellEnv == [session |-> {0, RandDen - 1}, tick |-> {0 - 5, 0, 5}, horizon |-> DwellClock,
             fail |-> FALSE]

InitDwell == \E c \in DwellConfigs : InitWith(c, DwellEnv)

NextDwell ==
    \/ ticks = {} /\ \E h \in Handles : TickStart(h)
    \/ \E k \in ticks : TickUpdateBus(k)
    \/ \E k \in ticks : TickUpdateTrip(k)
    \/ \E k \in ticks : TickDeleteLocation(k)
    \/ \E k \in ticks : TickInsertLocation(k)
    \/ ticks = {} /\ timers # <<>> /\ Advance
    \/ nreq = 0 /\ \E t \in TripIds : StartRequest(t)
    \/ \E r \in reqs : StartUpdateTrip(r)
    \/ \E r \in reqs : StartUpdateBus(r)
    \/ \E r \in reqs : TrackResume(r)

SpecDwell == InitDwell /\ [][NextDwell]_vars

\* ------------------------------------------------ one session, store failures
\* The session of SpecDwell with every store operation of a tick free to fail.
FailClock == 4

FailEnv == [session |-> {0}, tick |-> {0}, horizon |-> FailClock, fail |-> TRUE]

InitFail == \E c \in RaceConfigs : InitWith(c, FailEnv)

SpecFail == InitFail /\ [][NextDwell]_vars

\* ------------------------------------------------------------- two trips
\* Trips t1 and t2, on one vehicle or on two; each is started by one request.
FleetEnv == [session |-> {0}, tick |-> {0}, horizon |-> MaxClock, fail |-> FALSE]

InitFleet ==
    \E c \in RaceConfigs, b \in BusIds :
        /\ InitStore([t \in TripIds |-> "PENDING"],
                     [t \in TripIds |-> IF t = "t1" THEN "b1" ELSE b], c, {}, FleetEnv)
        /\ probe = NoProbe

NextFleet ==
    \/ \E h \in Handles : TickStart(h)
    \/ \E k \in ticks : TickUpdateBus(k)
    \/ \E k \in ticks : TickUpdateTrip(k)
    \/ \E k \in ticks : TickDeleteLocation(k)
    \/ \E k \in ticks : TickInsertLocation(k)
    \/ Advance
    \/ \E t \in TripIds : (\A h \in Handles : timers[h].trip # t) /\ StartRequest(t)
    \/ \E r \in reqs : StartUpdateTrip(r)
    \/ \E r \in reqs : StartUpdateBus(r)
    \/ \E r \in reqs : TrackResume(r)

SpecFleet == InitFleet /\ [][NextFleet]_vars

\* ------------------------------------------------------------ change feed
\* The trips are started, cancelled and created by other clients of the Trip
\* Store; the process learns of it from the change feed only.
\* Another client of the Trip Store creates the trip, PENDING or already IN_PROGRESS.
ExternalInsert(t) ==
    /\ trips[t] = NoTrip
    /\ \E c \in RaceConfigs, st \in {"PENDING", "IN_PROGRESS"} :
         /\ trips' = [trips EXCEPT ![t] = [NewTrip(c) EXCEPT !.status = st]]
         /\ feed' = feed \cup {ChangeEvent("INSERT", t, trips'[t])}
    /\ UNCHANGED <<cfg, buses, bus_locations, regVars, ticks, reqs, nreq, clockVars,
                   histVars, env, probe>>

FeedEnv == [session |-> {0}, tick |-> {0}, horizon |-> MaxClock, fail |-> FALSE]

InitFeed ==
    \E c \in SerialConfigs, b \in BusIds :
        /\ InitStore([t \in TripIds |-> IF t = "t1" THEN "PENDING" ELSE "absent"],
                     [t \in TripIds |-> IF t = "t1" THEN "b1" ELSE b], c, {}, FeedEnv)
        /\ probe = NoProbe

NextFeed ==
    \/ \E h \in Handles : TickStart(h)
    \/ \E k \in ticks : TickUpdateBus(k)
    \/ \E k \in ticks : TickUpdateTrip(k)
    \/ \E k \in ticks : TickDeleteLocation(k)
    \/ \E k \in ticks : TickInsertLocation(k)
    \/ Advance
    \/ \E t \in TripIds : ExternalInsert(t)
    \/ \E t \in TripIds : ExternalStart(t)
    \/ \E t \in TripIds : ExternalCancel(t)
    \/ \E e \in feed : FeedUpdate(e)
    \/ \E e \in feed : FeedInsert(e)
    \/ \E r \in reqs : TrackResume(r)
    \/ \E r \in reqs : PrePositionDelete(r)
    \/ \E r \in reqs : PrePositionInsert(r)

SpecFeed == InitFeed /\ [][NextFeed]_vars

\* ---------------------------------------------------------------- startup
\* The process starts on a store of two trips, each PENDING or IN_PROGRESS, on
\* one vehicle or on two, and runs initializeTracking; timers it creates tick.
BootEnv == [session |-> {0}, tick |-> {0}, horizon |-> MaxClock, fail |-> FALSE]

InitBoot ==
    \E c \in RaceConfigs, b \in BusIds, s1 \in {"PENDING", "IN_PROGRESS"},
       s2 \in {"PENDING", "IN_PROGRESS", "absent"} :
        /\ InitStore([t \in TripIds |-> IF t = "t1" THEN s1 ELSE s2],
                     [t \in TripIds |-> IF t = "t1" THEN "b1" ELSE b], c, {BootCall},
                     BootEnv)
        /\ probe = NoProbe

NextBoot ==
    \/ \E h \in Handles : TickStart(h)
    \/ \E k \in ticks : TickUpdateBus(k)
    \/ \E k \in ticks : TickUpdateTrip(k)
    \/ \E k \in ticks : TickDeleteLocation(k)
    \/ \E k \in ticks : TickInsertLocation(k)
    \/ Advance
    \/ \E r \in reqs : BootTest(r)
    \/ \E r \in reqs : BootSelectInProgress(r)
    \/ \E r \in reqs : BootTrackResume(r)
    \/ \E r \in reqs : BootSelectPending(r)
    \/ \E r \in reqs : PrePositionDelete(r)
    \/ \E r \in reqs : PrePositionInsert(r)

SpecBoot == InitBoot /\ [][NextBoot]_vars

\* --------------------------------------------------------- pure functions
SpeedDistances == {0, 49, 50, 149, 150}
SpeedSegments == {<<>>, <<Point, Stop(1)>>, <<Toll("toll_entry"), Point>>,
                  <<Point, Toll("toll_exit")>>}
Draws == 0..(RandDen - 1)

\* A call about to be made: the function and its arguments.
ProbeCall(fn, distance, tripSegments, r1, r2, P, N) ==
    [fn |-> fn, distance |-> distance, tripSegments |-> tripSegments, r1 |-> r1,
     r2 |-> r2, P |-> P, N |-> N, out |-> Null]

InitPure ==
    /\ \E c \in RaceConfigs : InitTracker(c, RaceEnv)
    /\ \/ \E d \in SpeedDistances, sg \in SpeedSegments, a \in Draws, b \in Draws :
              probe = ProbeCall("getRealisticSpeed", d, sg, a, b, 0, 1)
       \/ \E d \in SpeedDistances, a \in Draws, b \in Draws :
              probe = ProbeCall("getRealisticSpeedLegacy", d, <<>>, a, b, 0, 1)
       \/ \E f \in 0..PUnits, n \in 1..MaxPath :
              probe = ProbeCall("currentPosition", 0, <<>>, 0, 0, f, n)

CallGetRealisticSpeed ==
    /\ probe.fn = "getRealisticSpeed" /\ probe.out = Null
    /\ probe' = [probe EXCEPT !.out = getRealisticSpeed(probe.distance, probe.tripSegments,
                                                        probe.r1, probe.r2)]
    /\ UNCHANGED <<cfg, storeVars, regVars, procVars, clockVars, histVars, env>>

CallGetRealisticSpeedLegacy ==
    /\ probe.fn = "getRealisticSpeedLegacy" /\ probe.out = Null
    /\ probe' = [probe EXCEPT !.out = getRealisticSpeedLegacy(probe.distance, probe.r1,
                                                              probe.r2)]
    /\ UNCHANGED <<cfg, storeVars, regVars, procVars, clockVars, histVars, env>>

CallCurrentPosition ==
    /\ probe.fn = "currentPosition" /\ probe.out = Null
    /\ probe' = [probe EXCEPT !.out = currentPosition(probe.P, probe.N)]
    /\ UNCHANGED <<cfg, storeVars, regVars, procVars, clockVars, histVars, env>>

NextPure ==
    \/ CallGetRealisticSpeed
    \/ CallGetRealisticSpeedLegacy
    \/ CallCurrentPosition

SpecPure == InitPure /\ [][NextPure]_vars

\* -------------------------------------------------------- routing library
\* Distances are in metres, durations in milliseconds. A location is an object
\* with valid coordinates at `at` metres along a line ("ok"), an object whose
\* coordinates are not numbers ("nan"), an object whose coordinates are numbers out
\* of range, such as lat = 200 ("range"), or no object at all ("missing").
NoLocation == [kind |-> "missing", at |-> 0]
NotANumber == [kind |-> "nan", at |-> 0]
Place(m) == [kind |-> "ok", at |-> m]
OutOfRange(m) == [kind |-> "range", at |-> m]

RouteSegment(type, order, loc, gate, stop_duration) ==
    [type |-> type, order |-> order, location |-> loc, gate |-> gate,
     stop_duration |-> stop_duration]

isValidCoordinate_any(loc) == TRUE

isValidCoordinate(loc) == loc.kind = "ok"

\* Haversine distance: NaN as soon as one coordinate is not a number.
calculateDistance(a, b) ==
    IF a.kind = "nan" \/ b.kind = "nan" THEN NaN
    ELSE IF a.at >= b.at THEN a.at - b.at ELSE b.at - a.at

\* a + b of two numbers of which either may be NaN
Plus(a, b) == IF a = NaN \/ b = NaN THEN NaN ELSE a + b

AtLeast_none(lo, a) == a

\* Math.max(lo, a): NaN for NaN
AtLeast(lo, a) == IF a = NaN THEN NaN ELSE Max(lo, a)

\* Math.round of a duration, which is in minutes in the source
RoundMinutes(ms) == IF ms = NaN THEN NaN ELSE ((ms + 30000) \div 60000) * 60000

\* A call that ended with an exception, and a call that returned a route of
\* `points` coordinates.
Raised == [raised |-> TRUE, points |-> 0, distance |-> 0, duration |-> 0]
RouteOf(points, distance, duration) ==
    [raised |-> FALSE, points |-> points, distance |-> distance, duration |-> duration]

\* numPoints = Math.max(20, Math.min(100, Math.floor(directDistance * 3))), the loop
\* runs for i = 0..numPoints, and not at all when numPoints is NaN; 50 km/h.
getDirectRoute(startPoint, endPoint) ==
    IF startPoint.kind = "missing" \/ endPoint.kind = "missing" THEN Raised
    ELSE LET directDistance == calculateDistance(startPoint, endPoint) IN
         IF directDistance = NaN THEN RouteOf(0, NaN, NaN)
         ELSE RouteOf(Max(20, Min(100, (3 * directDistance) \div 1000)) + 1,
                      directDistance, 72 * directDistance)

\* The catch block rethrows instead of falling back.
getRouteFromOSRM_rethrow(startPoint, endPoint, o) ==
    IF startPoint.kind = "missing" \/ endPoint.kind = "missing" THEN Raised
    ELSE IF ~isValidCoordinate(startPoint) \/ ~isValidCoordinate(endPoint)
    THEN getDirectRoute(startPoint, endPoint)
    ELSE IF o.ok THEN RouteOf(o.points, o.distance, o.duration)
    ELSE IF o.why \in {"timeout", "network"} THEN Raised
    ELSE getDirectRoute(startPoint, endPoint)

\* o is what the OSRM service does on this call: a route of o.points coordinates
\* (o.ok), or, by o.why, the abort of the 10 s timeout or a network error (fetch
\* rejects: the catch block), a response that is not ok, a response without
\* routes. Reading .name of a missing point raises inside the try, and
\* getDirectRoute raises again inside the catch.
getRouteFromOSRM(startPoint, endPoint, o) ==
    IF startPoint.kind = "missing" \/ endPoint.kind = "missing" THEN Raised
    ELSE IF ~isValidCoordinate(startPoint) \/ ~isValidCoordinate(endPoint)
    THEN getDirectRoute(startPoint, endPoint)
    ELSE IF o.ok THEN RouteOf(o.points, o.distance, o.duration)
    ELSE IF o.why \in {"timeout", "network"} THEN getDirectRoute(startPoint, endPoint)
    ELSE getDirectRoute(startPoint, endPoint)

\* The number of fetch calls of one getRouteFromOSRM call: none when a point is
\* missing or invalid, one otherwise (there is no retry inside the function).
OsrmRequests(startPoint, endPoint) ==
    IF startPoint.kind = "missing" \/ endPoint.kind = "missing" THEN 0
    ELSE IF ~isValidCoordinate(startPoint) \/ ~isValidCoordinate(endPoint) THEN 0
    ELSE 1

\* [...segments].sort((a, b) => a.order - b.order): stable
sortedSegments(segments) ==
    LET n == Len(segments)
        p == CHOOSE q \in [1..n -> 1..n] :
                \A i \in 1..n, j \in 1..n :
                    i < j => \/ segments[q[i]].order < segments[q[j]].order
                             \/ /\ segments[q[i]].order = segments[q[j]].order
                                /\ q[i] < q[j]
    IN  [i \in 1..n |-> segments[p[i]]]

\* One pass of the loop over consecutive pairs: i is the 0-based index of the
\* pair, acc the totals and the number of coordinates collected so far.
ProcessPair(acc, i, currentSegment, nextSegment, o) ==
    LET startPoint == IF currentSegment.type = "toll_entry"
                         /\ currentSegment.gate.kind # "missing"
                      THEN currentSegment.gate ELSE currentSegment.location
        endPoint == IF nextSegment.type \in {"toll_entry", "toll_exit"}
                       /\ nextSegment.gate.kind # "missing"
                    THEN nextSegment.gate ELSE nextSegment.location
        segmentDistance == calculateDistance(startPoint, endPoint)
        osrm == getRouteFromOSRM(startPoint, endPoint, o)
        routeData == IF osrm.points = 0 THEN getDirectRoute(startPoint, endPoint) ELSE osrm
        stop == IF currentSegment.type = "stop" THEN currentSegment.stop_duration * 60000
                ELSE 0
        connect == IF acc.points > 0 /\ routeData.points > 0 /\ o.gap THEN 1 ELSE 0
    IN  IF currentSegment.location.kind = "missing" \/ nextSegment.location.kind = "missing"
        THEN acc
        ELSE IF ~isValidCoordinate(currentSegment.location)
                \/ ~isValidCoordinate(nextSegment.location)
        THEN acc
        ELSE IF segmentDistance # NaN /\ segmentDistance < 10
        THEN acc
        ELSE [points |-> IF i = 0 THEN acc.points + routeData.points
                         ELSE acc.points + connect + Max(routeData.points - 1, 0),
              distance |-> Plus(acc.distance, routeData.distance),
              duration |-> Plus(Plus(acc.duration, routeData.duration), stop)]

\* The getRouteFromOSRM calls of the pair loop that send a request: one for every
\* pair that is not skipped and whose resolved end points have valid coordinates
\* (getRouteFromOSRM does not raise for such points, so the retry loop runs once).
RECURSIVE PairLoopRequests(_, _)
PairLoopRequests(i, sorted) ==
    IF i >= Len(sorted) - 1 THEN 0
    ELSE LET currentSegment == sorted[i + 1]
             nextSegment == sorted[i + 2]
             startPoint == IF currentSegment.type = "toll_entry"
                              /\ currentSegment.gate.kind # "missing"
                           THEN currentSegment.gate ELSE currentSegment.location
             endPoint == IF nextSegment.type \in {"toll_entry", "toll_exit"}
                            /\ nextSegment.gate.kind # "missing"
                         THEN nextSegment.gate ELSE nextSegment.location
             segmentDistance == calculateDistance(startPoint, endPoint)
             skipped == \/ currentSegment.location.kind = "missing"
                        \/ nextSegment.location.kind = "missing"
                        \/ ~isValidCoordinate(currentSegment.location)
                        \/ ~isValidCoordinate(nextSegment.location)
                        \/ (segmentDistance # NaN /\ segmentDistance < 10)
         IN  (IF skipped THEN 0 ELSE OsrmRequests(startPoint, endPoint))
             + PairLoopRequests(i + 1, sorted)

RECURSIVE ProcessPairs(_, _, _, _)
ProcessPairs(acc, i, sorted, osrm) ==
    IF i >= Len(sorted) - 1 THEN acc
    ELSE ProcessPairs(ProcessPair(acc, i, sorted[i + 1], sorted[i + 2], osrm[i + 1]),
                      i + 1, sorted, osrm)

\* The catch block: for two segments or more, a route between the first and the
\* last of the list as it was given; the error is raised again otherwise, and
\* when that route cannot be had either.
EmergencyFallback(segments, o) ==
    IF Len(segments) >= 2
    THEN LET emergencyRoute == getRouteFromOSRM(segments[1].location,
                                                segments[Len(segments)].location, o)
         IN  IF emergencyRoute.raised THEN Raised
             ELSE RouteOf(emergencyRoute.points, emergencyRoute.distance,
                          RoundMinutes(emergencyRoute.duration))
    ELSE Raised

\* osrm[i] is what the OSRM service does for the i-th pair, osrm[Len(segments)]
\* for the route between the first and the last segment.
calculateRouteFromSegments(segments, osrm) ==
    IF segments = <<>> THEN Raised
    ELSE IF Len(segments) = 1
    THEN IF segments[1].location.kind = "missing" THEN Raised
         ELSE RouteOf(3, 100, 60000)
    ELSE LET sorted == sortedSegments(segments)
             acc == ProcessPairs([points |-> 0, distance |-> 0, duration |-> 0], 0,
                                 sorted, osrm)
             fallbackRoute == getRouteFromOSRM(sorted[1].location,
                                               sorted[Len(sorted)].location,
                                               osrm[Len(segments)])
         IN  IF acc.points > 0
             THEN RouteOf(acc.points, AtLeast(100, acc.distance),
                          RoundMinutes(AtLeast(60000, acc.duration)))
             ELSE IF fallbackRoute.raised
             THEN EmergencyFallback(segments, osrm[Len(segments)])
             ELSE RouteOf(fallbackRoute.points, AtLeast(100, fallbackRoute.distance),
                          RoundMinutes(AtLeast(60000, fallbackRoute.duration)))

\* The segments and the answers of the OSRM service the calls are made with.
RouteLocations == {NoLocation, NotANumber, OutOfRange(0), Place(0), Place(5), Place(20000)}

SegmentChoices ==
    {RouteSegment("point", 0, loc, NoLocation, 0) : loc \in RouteLocations}
    \cup {RouteSegment("stop", 0, Place(20000), NoLocation, 1),
          RouteSegment("toll_entry", 0, Place(5), Place(20000), 0),
          RouteSegment("toll_exit", 0, Place(0), NotANumber, 0)}

OsrmFailed(why) ==
    [ok |-> FALSE, why |-> why, points |-> 0, distance |-> 0, duration |-> 0,
     gap |-> FALSE]

OsrmRoute(points, distance, duration, gap) ==
    [ok |-> TRUE, why |-> "route", points |-> points, distance |-> distance,
     duration |-> duration, gap |-> gap]

OsrmNone == OsrmFailed("status")

OsrmAnswers ==
    {OsrmNone, OsrmRoute(0, 0, 0, FALSE), OsrmRoute(2, 50, 3600, FALSE),
     OsrmRoute(2, 50, 3600, TRUE)}

\* Every way a single request can end.
OsrmOutcomes ==
    {OsrmFailed(why) : why \in {"timeout", "network", "status", "empty"}}
    \cup {OsrmRoute(0, 0, 0, FALSE), OsrmRoute(2, 50, 3600, FALSE),
          OsrmRoute(3, 30000, 1800000, FALSE)}

\* The list sg with the orders 1..n, given in that order or in the reverse one.
Ordered(sg, reversed) ==
    [i \in 1..Len(sg) |->
        IF reversed THEN [sg[Len(sg) + 1 - i] EXCEPT !.order = Len(sg) + 1 - i]
        ELSE [sg[i] EXCEPT !.order = i]]

\* The points getDirectRoute is applied to: up to 40 km apart, in steps that
\* cross both ends of the clamp (20 / 3 km and 100 / 3 km).
DirectPlaces ==
    {Place(0), Place(5), Place(6000), Place(7000), Place(20000), Place(33000),
     Place(34000), Place(40000)}

InitRoute ==
    /\ \E c \in RaceConfigs : InitTracker(c, RaceEnv)
    /\ \/ \E n \in 0..MaxSegments :
            \E sg \in [1..n -> SegmentChoices], reversed \in BOOLEAN,
               osrm \in [1..Max(n, 1) -> OsrmAnswers] :
                probe = [fn |-> "calculateRouteFromSegments",
                         segments |-> Ordered(sg, reversed),
                         osrm |-> osrm, done |-> FALSE, out |-> Raised,
                         requests |-> 0]
       \/ \E a \in RouteLocations, b \in RouteLocations, o \in OsrmOutcomes :
                probe = [fn |-> "getRouteFromOSRM", startPoint |-> a, endPoint |-> b,
                         o |-> o, done |-> FALSE, out |-> Raised, requests |-> 0]
       \/ \E a \in DirectPlaces, b \in DirectPlaces :
                probe = [fn |-> "getDirectRoute", startPoint |-> a, endPoint |-> b,
                         done |-> FALSE, out |-> Raised]

CallCalculateRouteFromSegments ==
    /\ probe.fn = "calculateRouteFromSegments" /\ ~probe.done
    /\ probe' = [probe EXCEPT !.done = TRUE,
                              !.out = calculateRouteFromSegments(probe.segments, probe.osrm),
                              !.requests = IF Len(probe.segments) < 2 THEN 0
                                           ELSE PairLoopRequests(
                                                    0, sortedSegments(probe.segments))]
    /\ UNCHANGED <<cfg, storeVars, regVars, procVars, clockVars, histVars, env>>

CallGetRouteFromOSRM ==
    /\ probe.fn = "getRouteFromOSRM" /\ ~probe.done
    /\ probe' = [probe EXCEPT !.done = TRUE,
                              !.out = getRouteFromOSRM(probe.startPoint, probe.endPoint,
                                                       probe.o),
                              !.requests = OsrmRequests(probe.startPoint, probe.endPoint)]
    /\ UNCHANGED <<cfg, storeVars, regVars, procVars, clockVars, histVars, env>>

CallGetDirectRoute ==
    /\ probe.fn = "getDirectRoute" /\ ~probe.done
    /\ probe' = [probe EXCEPT !.done = TRUE,
                              !.out = getDirectRoute(probe.startPoint, probe.endPoint)]
    /\ UNCHANGED <<cfg, storeVars, regVars, procVars, clockVars, histVars, env>>

NextRoute ==
    \/ CallCalculateRouteFromSegments
    \/ CallGetRouteFromOSRM
    \/ CallGetDirectRoute

SpecRoute == InitRoute /\ [][NextRoute]_vars

\* ------------------------------------ one session, route from the segments
\* startTripTracking for a trip that has segments and no persisted route: the
\* route is synthesized by calculateRouteFromSegments and saved to the trip row.

\* A segment whose location is not set in the trip row.
Unlocated == [type |-> "point", stop_duration |-> 0, location |-> "missing"]

\* trip.segments as the routing library receives it: the segments lie 20 km
\* apart along the line, in their order; no toll gate has coordinates of its own.
RoutedSegments(segments) ==
    [i \in DOMAIN segments |->
        RouteSegment(segments[i].type, i,
                     IF "location" \in DOMAIN segments[i] THEN NoLocation
                     ELSE Place(20000 * (i - 1)),
                     NoLocation, segments[i].stop_duration)]

\* The library's result in the units of the trip row: kilometres and minutes.
RouteData(out) ==
    [route |-> out.points, distance |-> out.distance \div 1000,
     estimated_duration |-> out.duration \div 60000]

\* What the OSRM service answers during a session (the same for every pair).
SynthAnswers == {OsrmRoute(2, 1000, 30000, FALSE), OsrmRoute(3, 2000, 90000, FALSE)}

\* The synthesizer called whether or not the row has a route.
TrackSynthesize_always(r) ==
    /\ r \in reqs
    /\ r.pc = "sel_bus"
    /\ cfg[r.trip].segments # <<>>
    /\ reqs' = (reqs \ {r}) \cup {[r EXCEPT !.pc = "synth"]}
    /\ UNCHANGED <<cfg, storeVars, regVars, ticks, nreq, clockVars, histVars, env, probe>>

\* The call returns from its bus select, finds no persisted route but segments,
\* and calls calculateRouteFromSegments(trip.segments).
TrackSynthesize(r) ==
    /\ r \in reqs
    /\ r.pc = "sel_bus"
    /\ ~(r.snap.route > 0) /\ cfg[r.trip].segments # <<>>
    /\ reqs' = (reqs \ {r}) \cup {[r EXCEPT !.pc = "synth"]}
    /\ UNCHANGED <<cfg, storeVars, regVars, ticks, nreq, clockVars, histVars, env, probe>>

\* The catch block and the rest of the function: a two-point line from departure
\* to destination, its distance, and the duration estimatedDuration holds by then.
startTripTrackingFallback(t, estimatedDuration, r1, r2) ==
    startTripTrackingRegister(t, [route |-> 0, distance |-> 0,
                                  estimated_duration |-> estimatedDuration], r1, r2)

\* calculateRouteFromSegments returns: with a route, which the call goes on to
\* save, or with an exception, which the catch block turns into the fallback.
TrackSynthReturn(r) ==
    /\ r \in reqs
    /\ r.pc = "synth"
    /\ \E a \in SynthAnswers :
         LET segments == RoutedSegments(cfg[r.trip].segments)
             routeData == calculateRouteFromSegments(
                              segments, [i \in 1..Len(segments) |-> a])
         IN  IF routeData.raised
             THEN /\ Len(timers) < MaxTimers
                  /\ \E r1 \in env.session, r2 \in env.session :
                         startTripTrackingFallback(r.trip, r.snap.estimated_duration,
                                                   r1, r2)
                  /\ reqs' = reqs \ {r}
                  /\ UNCHANGED <<now, dwelt, cancelled>>
             ELSE /\ routeData.points > 0
                  /\ reqs' = (reqs \ {r})
                               \cup {[r EXCEPT !.pc = "save_route",
                                               !.snap = RouteData(routeData)]}
                  /\ UNCHANGED <<regVars, clockVars, histVars>>
    /\ UNCHANGED <<cfg, storeVars, ticks, nreq, env, probe>>

\* update({ route, distance, estimated_duration }).eq("id", trip.id) ends, and the
\* call runs to its end: with the synthesized route, or, when the update's promise
\* rejects, with the fallback line and the synthesized duration.
TrackSaveRoute(r) ==
    /\ r \in reqs
    /\ r.pc = "save_route"
    /\ Len(timers) < MaxTimers
    /\ \E o \in StoreOutcomes, r1 \in env.session, r2 \in env.session :
         /\ IF o = "ok" /\ trips[r.trip] # NoTrip
            THEN UpdateTrip(r.trip,
                            [trips[r.trip] EXCEPT
                                !.route = r.snap.route,
                                !.distance = r.snap.distance,
                                !.estimated_duration = r.snap.estimated_duration])
            ELSE UNCHANGED <<trips, feed>>
         /\ IF o = "throw"
            THEN startTripTrackingFallback(r.trip, r.snap.estimated_duration, r1, r2)
            ELSE /\ timers' = Append(timers, NewTimer(r.trip, r.snap, r1, r2))
                 /\ trackingIntervals' = [trackingIntervals EXCEPT
                                             ![r.trip] = Len(timers) + 1]
                 /\ activeTrips' = activeTrips \cup {r.trip}
                 /\ fired' = fired \cup {Len(timers) + 1}
                 /\ UNCHANGED stopStates
    /\ reqs' = reqs \ {r}
    /\ UNCHANGED <<cfg, buses, bus_locations, ticks, nreq, now, histVars, env, probe>>

\* Trips without a persisted route: two stretches with a stop of one minute
\* between them, one stretch, a segment without a location, no segments at
\* all; and the first trip with the route an earlier session saved.
SynthConfigs ==
    {[segments |-> <<Point, Stop(1), Point>>, directDistance |-> 40, route |-> 0,
      distance |-> 0, estimated_duration |-> 0],
     [segments |-> <<Point, Point>>, directDistance |-> 20, route |-> 0,
      distance |-> 0, estimated_duration |-> 0],
     [segments |-> <<Unlocated>>, directDistance |-> 1, route |-> 0,
      distance |-> 0, estimated_duration |-> 0],
     [segments |-> <<>>, directDistance |-> 1, route |-> 0, distance |-> 0,
      estimated_duration |-> 0],
     [segments |-> <<Point, Stop(1), Point>>, directDistance |-> 40, route |-> 3,
      distance |-> 2, estimated_duration |-> 2]}

InitSynth == \E c \in SynthConfigs : InitWith(c, DwellEnv)

NextSynth ==
    \/ ticks = {} /\ \E h \in Handles : TickStart(h)
    \/ \E k \in ticks : TickUpdateBus(k)
    \/ \E k \in ticks : TickUpdateTrip(k)
    \/ \E k \in ticks : TickDeleteLocation(k)
    \/ \E k \in ticks : TickInsertLocation(k)
    \/ ticks = {} /\ timers # <<>> /\ Advance
    \/ nreq = 0 /\ \E t \in TripIds : StartRequest(t)
    \/ \E r \in reqs : StartUpdateTrip(r)
    \/ \E r \in reqs : StartUpdateBus(r)
    \/ \E r \in reqs : TrackResume(r)
    \/ \E r \in reqs : TrackSynthesize(r)
    \/ \E r \in reqs : TrackSynthReturn(r)
    \/ \E r \in reqs : TrackSaveRoute(r)

SpecSynth == InitSynth /\ [][NextSynth]_vars

\* ----------------------------------------------- sessions that never end
\* The process with no cancellation and no store failure, run forever: trips
\* without stops, so that the time of day matters to no decision and the clock
\* may stay at its horizon; every store call of a tick returns within the period.

\* A period ends, at any time of day.
AdvanceForever ==
    /\ \A h \in Handles : timers[h].live => h \in fired
    /\ now' = Min(now + updateIntervalSeconds,
                  StartClock + env.horizon * updateIntervalSeconds)
    /\ fired' = {}
    /\ UNCHANGED <<cfg, storeVars, regVars, procVars, histVars, env, probe>>

InitLive == \E c \in SerialConfigs : InitWith(c, SerialEnv)

\* The steps of the ticks, of the handlers, and the deliveries of the change feed.
LiveTick ==
    \/ ticks = {} /\ \E h \in Handles : TickStart(h)
    \/ \E k \in ticks : TickUpdateBus(k)
    \/ \E k \in ticks : TickUpdateTrip(k)
    \/ \E k \in ticks : TickDeleteLocation(k)
    \/ \E k \in ticks : TickInsertLocation(k)

LiveHandler ==
    \/ \E r \in reqs : StartUpdateTrip(r)
    \/ \E r \in reqs : StartUpdateBus(r)
    \/ \E r \in reqs : TrackResume(r)

LiveFeed == \E e \in feed : FeedUpdate(e)

NextLive ==
    \/ ticks = {} /\ \E h \in Handles : TickStart(h)
    \/ \E k \in ticks : TickUpdateBus(k)
    \/ \E k \in ticks : TickUpdateTrip(k)
    \/ \E k \in ticks : TickDeleteLocation(k)
    \/ \E k \in ticks : TickInsertLocation(k)
    \/ ticks = {} /\ AdvanceForever
    \/ \E t \in TripIds : StartRequest(t)
    \/ \E r \in reqs : StartUpdateTrip(r)
    \/ \E r \in reqs : StartUpdateBus(r)
    \/ \E r \in reqs : TrackResume(r)
    \/ \E e \in feed : FeedUpdate(e)

\* Every timer fires in every period, every store call returns, every change
\* event is delivered; requests come as the clients send them.
SpecLive ==
    /\ InitLive /\ [][NextLive]_vars
    /\ WF_vars(LiveTick) /\ WF_vars(ticks = {} /\ AdvanceForever)
    /\ WF_vars(LiveHandler) /\ WF_vars(LiveFeed)

\* ================================================================ properties
\* The tick of handle h starts in this step.
TickStarts(h) == h \in Handles /\ h \notin fired /\ h \in fired'

\* The tick k's update of the trip row takes effect in this step.
TickWrites(k) == k \in ticks /\ k.pc = "upd_trip" /\ k \notin ticks'

AtStop(t) == stopStates[t].present /\ stopStates[t].isAtStop

\* The dwell duration (minutes) of the i-th stop of trip t, as its segment states it.
DwellOf(t, i) == cfg[t].segments[StopAt(cfg[t].segments, i)].stop_duration

StopsOf(t) == 0..(Cardinality(stopSegments(cfg[t].segments)) - 1)

\* Nothing of trip t is in flight: no tick, no handler, no live timer.
Quiet(t) ==
    /\ \A k \in ticks : timers[k.h].trip # t
    /\ \A r \in reqs : r.trip # t
    /\ LiveTimers(t) = {}

\* C1: at every moment at most one periodic timer is live for a trip id, also
\* when two startTripTracking calls for the same id overlap.
C1_AtMostOneLiveTimer == \A t \in TripIds : Cardinality(LiveTimers(t)) <= 1

\* C2: when startTripTracking is called for a trip id and, after that call has
\* returned, is called again for the same id, the call that registers leaves
\* exactly one live timer for the id: the timer it created, held by the registry;
\* the earlier timer is cancelled.
C2_SequentialStartsOneTimer ==
    [][\A t \in TripIds :
         (Len(timers') = Len(timers) + 1 /\ timers'[Len(timers')].trip = t)
         => /\ { h \in 1..Len(timers') : timers'[h].trip = t /\ timers'[h].live }
                  = {Len(timers')}
            /\ trackingIntervals'[t] = Len(timers')]_vars

\* C2 witness: a second call has registered its timer, the first call's timer is
\* cancelled, the trip is still under way.
C2_Witness ==
    /\ Len(timers) = 2
    /\ timers[1].trip = "t1" /\ timers[2].trip = "t1"
    /\ ~timers[1].live /\ timers[2].live
    /\ trackingIntervals["t1"] = 2
    /\ trips["t1"].status = "IN_PROGRESS" /\ trips["t1"].progress < PUnits
    /\ cancelled = {}

\* C3: while a trip is IN_PROGRESS the completion fraction written to the Trip
\* Store never decreases from one write to the next, and a tick on which the
\* dwell machine holds writes the fraction the store already has.
C3_ProgressNeverDecreases ==
    [][\A t \in TripIds :
         /\ (trips[t].status = "IN_PROGRESS" /\ trips'[t].status \in {"IN_PROGRESS", "COMPLETED"})
               => trips'[t].progress >= trips[t].progress
         /\ \A k \in ticks :
               (TickWrites(k) /\ timers[k.h].trip = t /\ ~k.isMoving
                  /\ trips[t].status = "IN_PROGRESS")
               => trips'[t].progress = trips[t].progress]_vars

\* C4: once AT_STOP(i) is entered, a tick that starts while the time since arrival
\* is below stop i's dwell duration leaves the fraction unchanged and the machine
\* at the stop; the first tick that starts with the time since arrival at or above
\* it returns the machine to NOT_AT_STOP and advances the fraction.
C4_FrozenUntilDwellElapsed ==
    [][\A h \in Handles :
         LET t == timers[h].trip IN
         (TickStarts(h) /\ trips[t].status = "IN_PROGRESS" /\ AtStop(t))
         => IF now - stopStates[t].stopStartTime < 60 * DwellOf(t, stopStates[t].currentStopIndex)
            THEN /\ stopStates'[t].isAtStop
                 /\ \A k \in ticks' \ ticks : k.upd.progress = trips[t].progress
            ELSE /\ ~stopStates'[t].isAtStop
                 /\ \A k \in ticks' \ ticks : k.upd.progress > trips[t].progress]_vars

\* C5: a trip with a stop of dwell duration d > 0 does not reach the completion
\* fraction 100 unless the dwell machine has held at that stop for at least d.
C5_NoCompletionWithoutDwell ==
    \A t \in TripIds :
        (trips[t] # NoTrip /\ trips[t].progress >= PUnits)
        => \A i \in StopsOf(t) : DwellOf(t, i) > 0 => <<t, i>> \in dwelt

\* C6: after a control-surface cancellation of a trip has responded and every tick
\* in flight has ended, the vehicle of the trip has no LiveLocation record.
C6_NoLocationAfterCancel ==
    \A t \in TripIds :
        (t \in cancelled /\ trips[t].status = "CANCELLED" /\ Quiet(t))
        => bus_locations[cfg[t].bus_id] = <<>>

\* C7: whenever the tracking task of a trip has ended because the trip was
\* cancelled (control-surface cancel, change event reporting CANCELLED, or the
\* tick's own status check), the LiveLocation record of the vehicle is removed.
C7_CancelRemovesLocation ==
    \A t \in TripIds :
        (trips[t].status = "CANCELLED" /\ Quiet(t) /\ t \notin activeTrips
           /\ \A e \in feed : e.trip # t)
        => bus_locations[cfg[t].bus_id] = <<>>

\* C8: getRealisticSpeed (both revisions) returns an integer in [20, 85] for every
\* distance, segment list and random draw.
C8_SpeedInRange ==
    (probe.fn \in {"getRealisticSpeed", "getRealisticSpeedLegacy"} /\ probe.out # Null)
    => probe.out \in 20..85

\* C8 witness: a toll trip whose base speed and variation exceed 85 returns 85.
C8_Witness ==
    /\ probe.fn = "getRealisticSpeed"
    /\ hasTollSegments(probe.tripSegments)
    /\ probe.r1 = RandDen - 1 /\ probe.r2 = RandDen - 1
    /\ probe.out = 85

\* C9: the speed a tick writes is 0 when the dwell machine holds on that tick
\* and lies in [15, 90] otherwise.
C9_SpeedWritten ==
    /\ \A k \in ticks : IF k.isMoving THEN k.upd.speed \in 15..90 ELSE k.upd.speed = 0
    /\ \A k \in ticks : (k.pc \in {"del_loc", "ins_loc"} /\ ticks = {k})
                           => trips[timers[k.h].trip].speed = k.upd.speed

\* C9 witness: a holding tick has written speed 0 while the session's speed is not 0.
C9_Witness ==
    \E k \in ticks :
        /\ ~k.isMoving /\ k.pc = "del_loc"
        /\ trips[timers[k.h].trip].speed = 0
        /\ timers[k.h].currentSpeed >= 15

\* C10: for every completion fraction f in [0, 100] and every path of N >= 1
\* elements the position is the element at index
\* clamp(floor(f / 100 * (N - 1)), 0, N - 1): the first at f = 0, the last at f = 100.
C10_PositionIndex ==
    (probe.fn = "currentPosition" /\ probe.out # Null)
    => /\ probe.out = Max(0, Min(probe.N - 1, (probe.P * (probe.N - 1)) \div PUnits))
       /\ probe.P = 0 => probe.out = 0
       /\ probe.P = PUnits => probe.out = probe.N - 1

\* C10 witness: f = 100 on a path of several elements gives the last element.
C10_Witness ==
    /\ probe.fn = "currentPosition"
    /\ probe.P = PUnits /\ probe.N = MaxPath
    /\ probe.out = probe.N - 1

\* The handle the registry holds for trip t is not live (or it holds none).
RegisteredTimerDead(t) ==
    trackingIntervals[t] # Null => ~timers[trackingIntervals[t]].live

\* The maps hold nothing for trip t.
Deregistered(t) ==
    /\ trackingIntervals[t] = Null
    /\ t \notin activeTrips
    /\ ~stopStates[t].present

\* C11: on the tick at which the fraction reaches 100 the vehicle is set inactive,
\* the trip is written with fraction 100, status COMPLETED and an end time, the
\* vehicle's newest LiveLocation is a record at the last path coordinate with
\* fraction 100, and when the tick ends its timer is cancelled and the maps hold
\* nothing for the trip.
C11_CompletionTick ==
    [][\A k \in ticks :
         LET t == timers[k.h].trip
             b == cfg[t].bus_id
         IN  k.upd.complete =>
             /\ TickUpdateBus(k) => ~buses'[b]
             /\ TickUpdateTrip(k) =>
                    /\ trips'[t].status = "COMPLETED" /\ trips'[t].end_time
                    /\ trips'[t].progress = PUnits
             /\ TickInsertLocation(k) =>
                    /\ bus_locations'[b] # <<>>
                    /\ bus_locations'[b][Len(bus_locations'[b])]
                          = [trip_id |-> t, progress |-> PUnits, pos |-> timers[k.h].N - 1]
                    /\ ~timers'[k.h].live
                    /\ Deregistered(t)']_vars

\* C12: after stopTripTracking(id) returns no timer is live for id and neither
\* trackingIntervals, activeTrips nor stopStates hold an entry for id; here for the
\* call the control-surface cancel makes.
C12_StopLeavesNothing ==
    [][\A t \in TripIds :
         (CancelRequest(t) /\ trips[t] # NoTrip)
         => (LiveTimers(t)' = {} /\ Deregistered(t)')]_vars

\* C13: a tick that finds its trip missing or not IN_PROGRESS cancels its own
\* timer, deregisters the trip and writes nothing to the stores.
C13_InactiveTripTick ==
    [][\A h \in Handles :
         LET t == timers[h].trip IN
         (TickStart(h) /\ (trips[t] = NoTrip \/ trips[t].status # "IN_PROGRESS"))
         => /\ ~timers'[h].live
            /\ trackingIntervals'[t] = Null /\ t \notin activeTrips'
            /\ UNCHANGED <<trips, buses, bus_locations>>
            /\ ticks' = ticks]_vars

\* C14: while a trip is IN_PROGRESS and a session was registered for it, the task
\* stays registered with its timer live, also after a store operation of a tick has
\* failed (the Trip Store write of the completing tick included).
C14_FailureKeepsTask ==
    \A t \in TripIds :
        (/\ trips[t] # NoTrip /\ trips[t].status = "IN_PROGRESS"
         /\ \E h \in Handles : timers[h].trip = t
         /\ \A r \in reqs : r.trip # t)
        => /\ trackingIntervals[t] # Null
           /\ timers[trackingIntervals[t]].live

\* C15: the Location Store never holds more than one record for a vehicle, under
\* any interleaving of ticks, start requests and cancel requests.
C15_OneLocationPerVehicle ==
    \A b \in BusIds : Len(bus_locations[b]) <= 1

\* The step is a step of a tick of trip a.
TickStepOf(a) ==
    \/ \E h \in Handles : timers[h].trip = a /\ TickStart(h)
    \/ \E k \in ticks :
         /\ timers[k.h].trip = a
         /\ \/ TickUpdateBus(k) \/ TickUpdateTrip(k)
            \/ TickDeleteLocation(k) \/ TickInsertLocation(k)

BootReturns ==
    /\ \E r \in reqs : r.kind = "init"
    /\ \A r \in reqs' : r.kind # "init"

\* Trip t is IN_PROGRESS and has a registered task with a live timer, or is not
\* IN_PROGRESS.
TrackedIfInProgress(t) ==
    (trips[t] # NoTrip /\ trips[t].status = "IN_PROGRESS")
    => /\ trackingIntervals[t] # Null
       /\ timers[trackingIntervals[t]].live
       /\ t \in activeTrips

\* The store holds another trip on the vehicle of trip t.
SharesVehicle(t) ==
    \E u \in TripIds \ {t} : trips[u] # NoTrip /\ cfg[u].bus_id = cfg[t].bus_id

C18_FeedHandler ==
    [][/\ \A e \in feed :
            FeedUpdate(e) =>
              IF e.status = "IN_PROGRESS" /\ e.trip \notin activeTrips
              THEN \E r \in reqs' \ reqs :
                      r.kind = "feed" /\ r.trip = e.trip /\ r.pc = "sel_bus"
              ELSE IF e.status # "IN_PROGRESS" /\ e.trip \in activeTrips
              THEN /\ trackingIntervals[e.trip] # Null
                   /\ ~timers'[trackingIntervals[e.trip]].live
                   /\ Deregistered(e.trip)'
              ELSE UNCHANGED regVars
       /\ \A r \in reqs :
            (r.kind = "feed" /\ TrackResume(r))
            => /\ trackingIntervals'[r.trip] # Null
               /\ timers'[trackingIntervals'[r.trip]].live
               /\ r.trip \in activeTrips'
       /\ \A e \in feed : FeedInsert(e) => UNCHANGED regVars
       /\ \A r \in reqs :
            r.kind = "inserted" =>
              /\ PrePositionDelete(r) => UNCHANGED regVars
              /\ PrePositionInsert(r) =>
                   /\ UNCHANGED regVars
                   /\ LET recs == bus_locations'[cfg[r.trip].bus_id]
                      IN  recs # <<>> /\ recs[Len(recs)] = PrePositionRecord(r.trip)
      ]_vars

\* The handler has started the tracking of t1 on its UPDATE event, has stopped it on
\* the event of its cancellation, and has pre-positioned the vehicle of the inserted,
\* PENDING trip t2.
C18_Witness ==
    /\ trips["t1"].status = "CANCELLED"
    /\ timers # <<>> /\ timers[1].trip = "t1" /\ ~timers[1].live
    /\ Deregistered("t1")
    /\ trips["t2"] # NoTrip /\ trips["t2"].status = "PENDING"
    /\ \E i \in 1..Len(bus_locations[cfg["t2"].bus_id]) :
          bus_locations[cfg["t2"].bus_id][i] = PrePositionRecord("t2")
    /\ reqs = {} /\ feed = {}

\* C19: once the SIGINT handler has run, no timer a startTripTracking call created
\* is live, and trackingIntervals, activeTrips and stopStates are empty.
C19_ShutdownLeavesNothing ==
    ~Running =>
       /\ \A h \in Handles : ~timers[h].live
       /\ \A t \in TripIds : Deregistered(t)

\* The handler has run in a process that had two timers for t1, the first of them
\* held by no map.
C19_Witness ==
    /\ ~Running
    /\ Len(timers) = 2 /\ timers[1].trip = "t1" /\ timers[2].trip = "t1"
    /\ trips["t1"].status = "IN_PROGRESS"
    /\ bus_locations["b1"] # <<>>

\* C20: calculateRouteFromSegments raises an error if and only if the segment list
\* is empty, and for a list of one segment or more it returns a path that is not
\* empty.
C20_RaisesOnlyOnEmptyList ==
    (probe.fn = "calculateRouteFromSegments" /\ probe.done)
    => /\ probe.out.raised <=> (probe.segments = <<>>)
       /\ probe.segments # <<>> => probe.out.points > 0

\* The call of calculateRouteFromSegments has returned a result.
RouteReturned == probe.fn = "calculateRouteFromSegments" /\ probe.done /\ ~probe.out.raised

\* Every location of the list, and every toll gate it has, has valid coordinates.
ValidSegments(segments) ==
    \A i \in 1..Len(segments) :
        /\ isValidCoordinate(segments[i].location)
        /\ segments[i].gate.kind \in {"missing", "ok"}

\* C21: for a list of one segment or more with valid coordinates, every result
\* calculateRouteFromSegments returns has a distance of 0.1 km or more and a
\* duration of 1 minute or more; and it returns one.
C21_MinimumDistanceAndDuration ==
    (probe.fn = "calculateRouteFromSegments" /\ probe.done
     /\ probe.segments # <<>> /\ ValidSegments(probe.segments))
    => /\ ~probe.out.raised
       /\ probe.out.distance >= 100
       /\ probe.out.duration >= 60000

\* Results lifted to the minimum: a pair of distant segments for which OSRM answers
\* a route of 50 m; two segments at one place, every pair skipped, the route between
\* the first and the last being of 50 m too.
C21_Witness ==
    /\ RouteReturned /\ ValidSegments(probe.segments)
    /\ Len(probe.segments) = 2
    /\ probe.osrm[1].ok /\ probe.osrm[1].points = 2 /\ probe.osrm[2] = probe.osrm[1]
    /\ probe.out.distance = 100 /\ probe.out.duration = 60000

\* Pair i (1-based) of the sorted list S has an anchor with invalid coordinates.
InvalidAnchor(S, i) ==
    S[i].location.kind \in {"nan", "range"} \/ S[i + 1].location.kind \in {"nan", "range"}

\* Pair i of S has two valid anchors that are not at the same place.
Contributes(S, i) ==
    /\ S[i].location.kind = "ok" /\ S[i + 1].location.kind = "ok"
    /\ S[i].location.at # S[i + 1].location.at
    /\ S[i].location.at - S[i + 1].location.at >= 10
       \/ S[i + 1].location.at - S[i].location.at >= 10

\* What pair i of S adds to the distance and to the duration when it is processed:
\* the OSRM route when there is one with coordinates, the direct route otherwise,
\* and the dwell of a stop the pair starts from.
PairDistance(S, i, o) ==
    IF o.ok /\ o.points > 0 THEN o.distance
    ELSE IF S[i].location.at >= S[i + 1].location.at
    THEN S[i].location.at - S[i + 1].location.at
    ELSE S[i + 1].location.at - S[i].location.at

PairDuration(S, i, o) ==
    (IF o.ok /\ o.points > 0 THEN o.duration ELSE 72 * PairDistance(S, i, o))
    + (IF S[i].type = "stop" THEN S[i].stop_duration * 60000 ELSE 0)

RECURSIVE SumOver(_, _)
SumOver(I, f) ==
    IF I = {} THEN 0
    ELSE LET i == CHOOSE j \in I : TRUE IN f[i] + SumOver(I \ {i}, f)

\* C22: in a list without toll segments and without a missing location, a pair with
\* an invalid anchor raises no error and adds nothing: when some pair has two valid,
\* distinct anchors, the result is a path that is not empty, and its distance and
\* duration are the sums over those pairs alone.
C22_InvalidPairSkipped ==
    (/\ probe.fn = "calculateRouteFromSegments" /\ probe.done
     /\ Len(probe.segments) >= 2
     /\ \A i \in 1..Len(probe.segments) :
           /\ probe.segments[i].type \in {"point", "stop"}
           /\ probe.segments[i].location.kind # "missing"
     /\ \E i \in 1..(Len(probe.segments) - 1) :
           InvalidAnchor(sortedSegments(probe.segments), i))
    => LET S == sortedSegments(probe.segments)
           I == {i \in 1..(Len(S) - 1) : Contributes(S, i)}
           km == SumOver(I, [i \in I |-> PairDistance(S, i, probe.osrm[i])])
           ms == SumOver(I, [i \in I |-> PairDuration(S, i, probe.osrm[i])])
       IN  /\ ~probe.out.raised
           /\ I # {} => /\ probe.out.points > 0
                        /\ probe.out.distance = Max(100, km)
                        /\ probe.out.duration = ((Max(60000, ms) + 30000) \div 60000) * 60000

\* The first pair of three segments is skipped for an anchor out of range, the
\* second is processed and makes the path.
C22_Witness ==
    /\ RouteReturned
    /\ Len(probe.segments) = 3
    /\ LET S == sortedSegments(probe.segments)
       IN  /\ S[1].location.kind = "range"
           /\ S[1].type = "point" /\ S[2].type = "stop" /\ S[3].type = "point"
           /\ Contributes(S, 2)
    /\ probe.out.points > 0

\* C23: for two points that are objects, getRouteFromOSRM never raises; when a point
\* has invalid coordinates it returns the direct route and sends no request; when
\* the request times out, fails on the network, is answered with a status that is
\* not ok or with no routes, it returns the direct route; and a call sends one
\* request at most.
C23_OsrmFallsBack ==
    (/\ probe.fn = "getRouteFromOSRM" /\ probe.done
     /\ probe.startPoint.kind # "missing" /\ probe.endPoint.kind # "missing")
    => LET direct == getDirectRoute(probe.startPoint, probe.endPoint)
       IN  /\ ~probe.out.raised
           /\ probe.requests <= 1
           /\ (probe.startPoint.kind # "ok" \/ probe.endPoint.kind # "ok")
              => probe.out = direct /\ probe.requests = 0
           /\ ~probe.o.ok => probe.out = direct

\* The request between two valid, distant points timed out, and the direct route
\* was returned.
C23_Witness ==
    /\ probe.fn = "getRouteFromOSRM" /\ probe.done
    /\ probe.startPoint.kind = "ok" /\ probe.endPoint.kind = "ok"
    /\ probe.startPoint.at # probe.endPoint.at
    /\ probe.o.why = "timeout"
    /\ probe.requests = 1
    /\ ~probe.out.raised /\ probe.out.points > 20

\* The startTripTracking call r ends in this step after the Route Synthesizer
\* failed, or for a trip with no segments and no persisted route.
EndsWithoutRoute(r) ==
    /\ r \in reqs /\ r \notin reqs'
    /\ \/ r.pc = "synth" /\ \A q \in reqs' : q.id # r.id
       \/ r.pc = "sel_bus" /\ ~(r.snap.route > 0) /\ cfg[r.trip].segments = <<>>

\* C24: when the Route Synthesizer fails for a trip, or the trip has no segments
\* and no persisted route, startTripTracking schedules no timer and makes no
\* registry entry.
C24_AbortsWithoutRoute ==
    [][\A r \in reqs : EndsWithoutRoute(r)
          => UNCHANGED <<timers, trackingIntervals, activeTrips>>]_vars

\* The call r of startTripTracking calls the Route Synthesizer in this step.
SynthesizerCalled(r) ==
    /\ r \in reqs /\ r.pc = "sel_bus"
    /\ \E q \in reqs' : q.id = r.id /\ q.pc = "synth"

\* The call r of startTripTracking creates its timer in this step.
SessionStarts(r) ==
    /\ r \in reqs /\ r.pc \in {"sel_bus", "synth", "save_route"}
    /\ \A q \in reqs' : q.id # r.id
    /\ Len(timers') = Len(timers) + 1

\* C25: startTripTracking calls the Route Synthesizer only for a trip without a
\* persisted route; the route, distance and duration the synthesizer returned are
\* in the trip row when the call ends, and the route is the path of the session;
\* a persisted route is the path of the session and stays in the row as it is;
\* and the path of a timer never changes after the timer was created.
C25_RouteFixedAtStart ==
    [][/\ \A r \in reqs :
            /\ SynthesizerCalled(r) => ~(trips[r.trip].route > 0)
            /\ (SessionStarts(r) /\ r.pc = "save_route")
                  => /\ trips'[r.trip].route = r.snap.route
                     /\ trips'[r.trip].distance = r.snap.distance
                     /\ trips'[r.trip].estimated_duration = r.snap.estimated_duration
                     /\ timers'[Len(timers')].N = r.snap.route
            /\ (SessionStarts(r) /\ trips[r.trip].route > 0)
                  => /\ r.pc = "sel_bus"
                     /\ timers'[Len(timers')].N = trips[r.trip].route
       /\ \A t \in TripIds :
            (trips[t] # NoTrip /\ trips[t].route > 0) => trips'[t].route = trips[t].route
       /\ \A h \in Handles : timers'[h].N = timers[h].N]_vars

\* A session runs on the five-point route the synthesizer returned and the row
\* holds, and a tick has moved the trip along it.
C25_Witness ==
    /\ Len(timers) = 1 /\ timers[1].trip = "t1" /\ timers[1].N = 5
    /\ cfg["t1"].segments = <<Point, Stop(1), Point>>
    /\ trips["t1"].route = 5 /\ trips["t1"].distance = 4
    /\ trips["t1"].estimated_duration = 4
    /\ trips["t1"].progress > 0

\* C26: a start or a cancel request for a trip id the Trip Store does not hold
\* returns at once (404) and changes nothing: no store, no timer, no registry
\* entry, no stop state, and no handler stays suspended.
C26_NotFoundChangesNothing ==
    [][\A t \in TripIds :
          (trips[t] = NoTrip /\ (StartRequest(t) \/ CancelRequest(t)))
          => UNCHANGED <<storeVars, regVars, reqs, ticks>>]_vars

\* Every request so far was for the trip the store does not hold: the trip it
\* holds is still PENDING, and no handler is suspended.
C26_Witness ==
    /\ nreq = MaxRequests /\ reqs = {}
    /\ trips["t2"] = NoTrip
    /\ trips["t1"].status = "PENDING"
    /\ timers = <<>> /\ feed = {}

\* The dwell minutes calculateRouteFromSegments adds to the duration of a route:
\* stop_duration of every stop that begins a pair.
RECURSIVE DwellInDuration(_)
DwellInDuration(segments) ==
    IF Len(segments) <= 1 THEN 0
    ELSE (IF Head(segments).type = "stop" THEN Head(segments).stop_duration ELSE 0)
         + DwellInDuration(Tail(segments))

\* C27: the increment of a session whose duration is the synthesized or the
\* persisted estimated duration is 100 / ceil(travelMinutes * 60 / 20), where
\* travelMinutes is that duration without the dwell of the stops.
C27_IncrementExcludesDwell ==
    \A h \in Handles :
        LET t == timers[h].trip
            travelMinutes == trips[t].estimated_duration
                                - DwellInDuration(cfg[t].segments)
        IN  (trips[t] # NoTrip /\ trips[t].route > 0 /\ travelMinutes > 0)
            => timers[h].ppu = progressPerUpdate(
                   (travelMinutes * 60 + updateIntervalSeconds - 1)
                       \div updateIntervalSeconds)

\* The stop (0-based, in stop order) the tick of timer h that starts now is at:
\* the first stop whose window holds the fraction of the row; Null when none.
CandidateStop(h) ==
    LET t == timers[h].trip
        cand == StopCandidates(trips[t].progress, timers[h].N, cfg[t].segments)
    IN  IF cand = {} THEN Null ELSE CHOOSE x \in cand : \A y \in cand : x <= y

\* The tick of timer h starts in this step and runs its stop logic.
TickRuns(h) ==
    /\ TickStarts(h)
    /\ trips[timers[h].trip].status = "IN_PROGRESS"
    /\ stopStates[timers[h].trip].present
    /\ ticks' # ticks

\* C28: a tick at stop i holds if and only if the time since the arrival at the
\* stop (none on the tick of arrival) is less than the dwell duration of stop i
\* as its segment states it, 0 included.
C28_HoldsIffDwellRemains ==
    [][\A h \in Handles :
         LET t == timers[h].trip
             i == CandidateStop(h)
             arrival == IF AtStop(t) /\ stopStates[t].currentStopIndex = i
                        THEN stopStates[t].stopStartTime ELSE now
         IN  (TickRuns(h) /\ i # Null)
             => \A k \in ticks' \ ticks :
                   ~k.isMoving <=> (now - arrival < 60 * DwellOf(t, i))]_vars

\* The stops of trip t whose position, as a percentage of the path of timer h,
\* differs by 2 at most from the completion fraction of the row.
StopsInWindow(h) ==
    LET t == timers[h].trip
        N == timers[h].N
    IN  { i \in StopsOf(t) :
            LET stopRouteIndex == findStopPositionInRoute(StopAt(cfg[t].segments, i), N,
                                                          cfg[t].segments)
            IN  /\ stopRouteIndex # NaN /\ N > 1
                /\ 100 * trips[t].progress * (N - 1)
                      >= (100 * stopRouteIndex - StopWindow * (N - 1)) * PUnits
                /\ 100 * trips[t].progress * (N - 1)
                      <= (100 * stopRouteIndex + StopWindow * (N - 1)) * PUnits }

\* C29: a tick deals with the first stop, in stop order, that lies within 2
\* percentage points (bounds included) of the completion fraction: it is the only
\* stop the tick can be at, hold at or leave; with no stop in the window the tick
\* leaves the stop state alone and advances the fraction by the increment.
C29_FirstStopInWindow ==
    [][\A h \in Handles :
         LET t == timers[h].trip
             W == StopsInWindow(h)
         IN  TickRuns(h)
             => \A k \in ticks' \ ticks :
                  IF W = {}
                  THEN /\ k.isMoving
                       /\ k.upd.progress = Min(PUnits, trips[t].progress + timers[h].ppu)
                       /\ stopStates'[t] = stopStates[t]
                  ELSE LET i == CHOOSE x \in W : \A y \in W : x <= y
                       IN  /\ stopStates'[t].isAtStop
                              => stopStates'[t].currentStopIndex = i
                           /\ ~k.isMoving => stopStates'[t].isAtStop
                           /\ dwelt' \ dwelt \subseteq {<<t, i>>}
                           /\ k.isMoving => ~stopStates'[t].isAtStop]_vars

\* A tick holds at the first stop while the second stop is in the window too.
C29_Witness ==
    \E k \in ticks :
        LET t == timers[k.h].trip IN
        /\ ~k.isMoving
        /\ Cardinality(StopsInWindow(k.h)) = 2
        /\ stopStates[t].isAtStop /\ stopStates[t].currentStopIndex = 0

\* C30: a live timer whose trip is missing or not IN_PROGRESS when its tick
\* starts is cancelled by that tick, whether or not the registry holds its handle.
C30_DeadTripTimerCancelled ==
    [][\A h \in Handles :
         LET t == timers[h].trip IN
         (/\ TickStarts(h) /\ timers[h].live
          /\ trips[t] = NoTrip \/ trips[t].status # "IN_PROGRESS")
         => ~timers'[h].live]_vars

\* C31: the path getDirectRoute returns for two points with valid coordinates has
\* 20 points at least and 100 points at most.
C31_DirectRoutePointCount ==
    (probe.fn = "getDirectRoute" /\ probe.done)
    => probe.out.points \in 20..100

\* The coordinates of the sub-path of pair i of S: those of the OSRM route when
\* there is one with coordinates, those of the direct route otherwise.
PairPoints(S, i, o) ==
    IF o.ok /\ o.points > 0 THEN o.points
    ELSE Max(20, Min(100, (3 * PairDistance(S, i, o)) \div 1000)) + 1

\* What the pairs I of S add to the path when the first of them adds its whole
\* sub-path and each later one its sub-path without the first point, after a
\* connecting point where there is a gap.
ExpectedPoints(S, I, osrm) ==
    LET first == CHOOSE i \in I : \A j \in I : i <= j
    IN  SumOver(I, [i \in I |->
            IF i = first THEN PairPoints(S, i, osrm[i])
            ELSE PairPoints(S, i, osrm[i]) - 1 + (IF osrm[i].gap THEN 1 ELSE 0)])

\* The call is made with point and stop segments that all have a location, and
\* some pair of them is processed.
PairsProcessed ==
    /\ probe.fn = "calculateRouteFromSegments" /\ probe.done
    /\ Len(probe.segments) >= 2
    /\ \A i \in 1..Len(probe.segments) :
          /\ probe.segments[i].type \in {"point", "stop"}
          /\ probe.segments[i].location.kind # "missing"
    /\ \E i \in 1..(Len(probe.segments) - 1) : Contributes(sortedSegments(probe.segments), i)

\* C32: the first pair that is processed adds all points of its sub-path, also
\* when earlier pairs were skipped; each later processed pair adds its sub-path
\* without the first point, after one connecting point when there is a gap.
C32_FirstProcessedPairWhole ==
    PairsProcessed
    => LET S == sortedSegments(probe.segments)
           I == {i \in 1..(Len(S) - 1) : Contributes(S, i)}
       IN  probe.out.points = ExpectedPoints(S, I, probe.osrm)

\* The end points of pair i of S after the toll gates are resolved: the entry gate
\* of the segment the pair starts from, the gate of the toll segment it ends at.
ResolvedStart(S, i) ==
    IF S[i].type = "toll_entry" /\ S[i].gate.kind # "missing" THEN S[i].gate
    ELSE S[i].location

ResolvedEnd(S, i) ==
    IF S[i + 1].type \in {"toll_entry", "toll_exit"} /\ S[i + 1].gate.kind # "missing"
    THEN S[i + 1].gate ELSE S[i + 1].location

\* Pair i of S is to be skipped: a resolved end point has invalid coordinates, or
\* the two lie less than 0.01 km apart.
ToBeSkipped(S, i) ==
    \/ ResolvedStart(S, i).kind # "ok"
    \/ ResolvedEnd(S, i).kind # "ok"
    \/ calculateDistance(ResolvedStart(S, i), ResolvedEnd(S, i)) < 10

\* C33: in a list whose locations are all valid, a pair with a toll gate of invalid
\* coordinates as a resolved end point, or with resolved end points less than
\* 0.01 km apart, is skipped: it adds nothing to the distance and no request is
\* sent for it.
C33_GatePairSkipped ==
    (/\ probe.fn = "calculateRouteFromSegments" /\ probe.done
     /\ Len(probe.segments) >= 2
     /\ \A i \in 1..Len(probe.segments) : probe.segments[i].location.kind = "ok")
    => LET S == sortedSegments(probe.segments)
           I == {i \in 1..(Len(S) - 1) : ~ToBeSkipped(S, i)}
           m == SumOver(I, [i \in I |->
                    IF probe.osrm[i].ok /\ probe.osrm[i].points > 0
                    THEN probe.osrm[i].distance
                    ELSE calculateDistance(ResolvedStart(S, i), ResolvedEnd(S, i))])
       IN  /\ probe.requests = Cardinality(I)
           /\ I # {} => probe.out.distance = Max(100, m)

\* The machine of trip t is at stop i.
AtStopNo(t, i) == stopStates[t].isAtStop /\ stopStates[t].currentStopIndex = i

\* C34: within a session the machine, once it has left AT_STOP(i) because the
\* dwell duration had elapsed, does not enter AT_STOP(i) again.
C34_DwellOnce ==
    [][\A t \in TripIds : \A i \in StopsOf(t) :
          <<t, i>> \in dwelt => (AtStopNo(t, i)' => AtStopNo(t, i))]_vars

\* C35: at most one tick of a timer is executing at any time: a tick of the
\* timer does not start while an earlier tick of it waits for a store call.
C35_NoOverlappingTicks ==
    \A k1 \in ticks, k2 \in ticks : k1.h = k2.h => k1 = k2

\* The control-surface cancel of trip t has written status CANCELLED: its handler
\* is past its update of the trip row, or has responded.
CancelWritten(t) ==
    \/ t \in cancelled
    \/ \E r \in reqs : r.kind = "cancel" /\ r.trip = t /\ r.pc # "upd_trip"

\* C36: once the control-surface cancel has written CANCELLED to a trip, no tick
\* writes to the trip row: the status stays CANCELLED and no field changes.
C36_NoWriteAfterCancel ==
    [][\A k \in ticks :
         LET t == timers[k.h].trip IN
         (TickUpdateTrip(k) /\ CancelWritten(t) /\ trips[t].status = "CANCELLED")
         => trips'[t] = trips[t]]_vars

\* C37: with fair ticks, no store failure and no cancellation, a trip for which a
\* task is registered eventually has completion fraction 100 and status COMPLETED
\* with nothing registered, unless the calls made meanwhile leave it without a
\* live timer.
C37_RegisteredTripCompletes ==
    \A t \in TripIds :
        (trackingIntervals[t] # Null)
        ~> (\/ /\ trips[t].status = "COMPLETED" /\ trips[t].progress = PUnits
               /\ Deregistered(t)
            \/ LiveTimers(t) = {})

\* Vehicle b is the vehicle of an IN_PROGRESS trip with a registered, live timer.
OwnedByTracked(b) ==
    \E u \in TripIds :
        /\ trips[u] # NoTrip /\ trips[u].status = "IN_PROGRESS"
        /\ cfg[u].bus_id = b
        /\ trackingIntervals[u] # Null /\ timers[trackingIntervals[u]].live

\* A store call of pre-positioning takes effect.
PrePositionStep ==
    \E r \in reqs : PrePositionDelete(r) \/ PrePositionInsert(r)

\* C38: a store call of pre-positioning, at startup or on an INSERT event, leaves
\* every location record of a vehicle owned by a tracked IN_PROGRESS trip in place.
C38_PrePositionSparesTracked ==
    [][PrePositionStep =>
         \A b \in BusIds :
            OwnedByTracked(b) =>
               /\ Len(bus_locations'[b]) >= Len(bus_locations[b])
               /\ \A i \in 1..Len(bus_locations[b]) :
                     bus_locations'[b][i] = bus_locations[b][i]]_vars

====
